---- MODULE Spec2Model ----
(***************************************************************************)
(* primesieve: the PrimeSieve object (soe/PrimeSieve.cpp) and the C++ API  *)
(* built on it (src/api.cpp), as a state machine.                          *)
(*                                                                         *)
(* 64-bit unsigned values (start, stop, cache sizes in bytes) are kept as  *)
(* four 16-bit limbs, most significant first, so that the range limit      *)
(* UINT64_MAX - UINT32_MAX * 10 and the cache limits 1 << 30 and 1 << 40   *)
(* are the program's own values and not scaled ones.                       *)
(***************************************************************************)
EXTENDS Integers, Naturals, Sequences, FiniteSets, TLC

(***************************************************************************)
(* Bounds of the model                                                     *)
(***************************************************************************)
\* largest start/stop value of a request that is really sieved
MaxStop == 19
\* largest start/stop value given to the PrimeSieve object directly
MaxN == 32
\* ParallelSieve::getMaxThreads(), the number of hardware threads
MaxHwThreads == 2

(***************************************************************************)
(* uint64_t arithmetic on limbs                                            *)
(***************************************************************************)
LimbBase == 2^16

U64(n) == <<0, 0, n \div LimbBase, n % LimbBase>>

IsU64(a) == a \in Seq(0..(LimbBase - 1)) /\ Len(a) = 4

\* a < b
U64Lt(a, b) ==
  \E i \in 1..4 : a[i] < b[i] /\ \A j \in 1..(i - 1) : a[j] = b[j]

\* a <= b
U64Le(a, b) == a = b \/ U64Lt(a, b)

\* a - b, modulo 2^64
U64Sub(a, b) ==
  LET d4 == a[4] - b[4]
      w4 == IF d4 < 0 THEN 1 ELSE 0
      d3 == a[3] - b[3] - w4
      w3 == IF d3 < 0 THEN 1 ELSE 0
      d2 == a[2] - b[2] - w3
      w2 == IF d2 < 0 THEN 1 ELSE 0
      d1 == a[1] - b[1] - w2
  IN  <<d1 % LimbBase, d2 % LimbBase, d3 % LimbBase, d4 % LimbBase>>

\* a + b, modulo 2^64
U64Add(a, b) ==
  LET s4 == a[4] + b[4]
      s3 == a[3] + b[3] + (s4 \div LimbBase)
      s2 == a[2] + b[2] + (s3 \div LimbBase)
      s1 == a[1] + b[1] + (s2 \div LimbBase)
  IN  <<s1 % LimbBase, s2 % LimbBase, s3 % LimbBase, s4 % LimbBase>>

\* a * m for a small m, modulo 2^64
U64Mul(a, m) ==
  LET p4 == a[4] * m
      p3 == a[3] * m + (p4 \div LimbBase)
      p2 == a[2] * m + (p3 \div LimbBase)
      p1 == a[1] * m + (p2 \div LimbBase)
  IN  <<p1 % LimbBase, p2 % LimbBase, p3 % LimbBase, p4 % LimbBase>>

\* a / d for a small d >= 1 (integer division)
U64Div(a, d) ==
  LET r1 == a[1] % d
      n2 == r1 * LimbBase + a[2]
      r2 == n2 % d
      n3 == r2 * LimbBase + a[3]
      r3 == n3 % d
      n4 == r3 * LimbBase + a[4]
  IN  <<a[1] \div d, n2 \div d, n3 \div d, n4 \div d>>

\* the values that fit a model integer
FitsInt(a) == a[1] = 0 /\ a[2] = 0 /\ a[3] < 2^14

Val(a) == a[3] * LimbBase + a[4]

UINT64_MAX == <<LimbBase - 1, LimbBase - 1, LimbBase - 1, LimbBase - 1>>

UINT32_MAX == <<0, 0, LimbBase - 1, LimbBase - 1>>

\* PrimeSieve::setStartNumber / setStopNumber: UINT64_MAX - UINT32_MAX * UINT64_C(10)
StopLimit == U64Sub(UINT64_MAX, U64Mul(UINT32_MAX, 10))

(***************************************************************************)
(* pmath: inBetween, floorPow2, isPowerOf2                                 *)
(***************************************************************************)
inBetween(min, x, max) ==
  IF x < min THEN min
  ELSE IF x > max THEN max
  ELSE x

\* inBetween on a size_t: the result is between min and max, an integer
inBetweenU64(min, x, max) ==
  IF U64Lt(x, U64(min)) THEN min
  ELSE IF U64Lt(U64(max), x) THEN max
  ELSE Val(x)

RECURSIVE floorPow2(_)
floorPow2(x) ==
  IF x <= 1 THEN x ELSE 2 * floorPow2(x \div 2)

RECURSIVE isPowerOf2(_)
isPowerOf2(x) ==
  IF x <= 0 THEN FALSE
  ELSE IF x = 1 THEN TRUE
  ELSE x % 2 = 0 /\ isPowerOf2(x \div 2)

(***************************************************************************)
(* State                                                                   *)
(***************************************************************************)
VARIABLES
  sieve_size,   \* api.cpp: user-selected sieve size in KiB, 0 = not set
  num_threads,  \* api.cpp: user-selected number of threads, 0 = not set
  cpuInfo,      \* the CpuInfo singleton read by get_sieve_size
  ps,           \* the PrimeSieve / ParallelSieve object of the current call
  workers,      \* the child PrimeSieve objects of a parallel sieve
  pc,           \* "idle", "running" (the workers sieve) or "returned"
  call,         \* the last operation called and its arguments
  ret,          \* the value it returned
  err,          \* the exception it raised, or "none"
  frame         \* the local variables of a function that runs step by step

vars == <<sieve_size, num_threads, cpuInfo, ps, workers, pc, call, ret, err, frame>>

\* no function is running step by step
NoFrame == [fn |-> "none"]

(***************************************************************************)
(* Flags of PrimeSieve (PrimeSieve.h): one bit per flag, in the order of   *)
(* the list in the comment of setFlags                                     *)
(***************************************************************************)
COUNT_PRIMES == 2^0
COUNT_TWINS == 2^1
COUNT_TRIPLETS == 2^2
COUNT_QUADRUPLETS == 2^3
COUNT_QUINTUPLETS == 2^4
COUNT_SEXTUPLETS == 2^5
COUNT_SEPTUPLETS == 2^6
PRINT_PRIMES == 2^7
PRINT_TWINS == 2^8
PRINT_TRIPLETS == 2^9
PRINT_QUADRUPLETS == 2^10
PRINT_QUINTUPLETS == 2^11
PRINT_SEXTUPLETS == 2^12
PRINT_SEPTUPLETS == 2^13
PRINT_STATUS == 2^14
CALLBACK_PRIMES == 2^15

COUNTS_SIZE == 7

\* flags & bit, for a one-bit mask
HasFlag(flags, bit) == (flags \div bit) % 2 = 1

\* flags & (COUNT_* | PRINT_* | CALLBACK_PRIMES) for any prime or k-tuplet
WantsResults(flags) ==
  \/ flags % PRINT_STATUS # 0
  \/ HasFlag(flags, CALLBACK_PRIMES)

(***************************************************************************)
(* Primes                                                                  *)
(***************************************************************************)
IsPrime(n) == n >= 2 /\ \A d \in 2..(n - 1) : n % d # 0

(***************************************************************************)
(* PrimeNumberFinder: the sieve bytes of [lo, hi].  Byte k holds the       *)
(* numbers 30k + 7, 11, 13, 17, 19, 23, 29, 31; a bit is set when its      *)
(* number is a prime of [lo, hi].  The k-tuplets are the bit patterns of   *)
(* one byte.                                                               *)
(***************************************************************************)
bitValues == <<7, 11, 13, 17, 19, 23, 29, 31>>

\* the bit patterns by type: 0 = primes, 1 = twins .. 6 = septuplets
kTupletBitmasks ==
  [t \in 0..6 |->
     CASE t = 0 -> {{b} : b \in 1..8}
       [] t = 1 -> {{2, 3}, {4, 5}, {7, 8}}
       [] t = 2 -> {{1, 2, 3}, {2, 3, 4}, {3, 4, 5}, {4, 5, 6}}
       [] t = 3 -> {{2, 3, 4, 5}}
       [] t = 4 -> {{1, 2, 3, 4, 5}, {2, 3, 4, 5, 6}}
       [] t = 5 -> {{1, 2, 3, 4, 5, 6}}
       [] t = 6 -> {{2, 3, 4, 5, 6, 7, 8}}]

\* the bits of byte k that are set after sieving [lo, hi]
SieveByte(k, lo, hi) ==
  {b \in 1..8 : LET n == 30 * k + bitValues[b]
                IN  lo <= n /\ n <= hi /\ IsPrime(n)}

\* the bytes that hold a number of [lo, hi]
SieveBytes(lo, hi) ==
  {k \in 0..(hi \div 30) : 30 * k + 31 >= lo /\ 30 * k + 7 <= hi}

\* the numbers of the bits m of byte k, ascending
BitNumbers(k, m) ==
  [i \in 1..Cardinality(m) |->
     30 * k + bitValues[CHOOSE b \in m : Cardinality({c \in m : c < b}) = i - 1]]

\* the hits of type t in [lo, hi], each the ascending sequence of its numbers
FinderHits(t, lo, hi) ==
  UNION {{BitNumbers(k, m) :
            m \in {x \in kTupletBitmasks[t] : x \subseteq SieveByte(k, lo, hi)}}
         : k \in SieveBytes(lo, hi)}

\* a set of hits in the order the bytes are scanned
RECURSIVE InScanOrder(_)
InScanOrder(hits) ==
  IF hits = {} THEN <<>>
  ELSE LET h == CHOOSE x \in hits : \A y \in hits : x[1] <= y[1]
       IN  <<h>> \o InScanOrder(hits \ {h})

\* the line printed for a hit: "7" for a prime, "(11, 13)" for a k-tuplet
RECURSIVE Joined(_)
Joined(h) ==
  IF Len(h) = 1 THEN ToString(h[1])
  ELSE ToString(h[1]) \o ", " \o Joined(Tail(h))

HitLine(h) == IF Len(h) = 1 THEN ToString(h[1]) ELSE "(" \o Joined(h) \o ")"

RECURSIVE FlatMap(_, _, _)
\* concatenation of Op(t) for the types t = from .. 6
FlatMap(Op(_), from, to) ==
  IF from > to THEN <<>> ELSE Op(from) \o FlatMap(Op, from + 1, to)

\* what the finder has counted, printed and called back when finish() returns
FinderRun(lo, hi, flags) ==
  IF \/ ~WantsResults(flags)
     \/ (lo = hi /\ lo[4] % 2 = 0 /\ U64Lt(U64(2), lo))
  THEN [counts |-> [t \in 0..6 |-> 0], lines |-> <<>>, primes |-> <<>>]
  ELSE LET l == Val(lo)
           h == Val(hi)
           Lines(t) == IF HasFlag(flags, PRINT_PRIMES * 2^t)
                       THEN [i \in 1..Cardinality(FinderHits(t, l, h)) |->
                               HitLine(InScanOrder(FinderHits(t, l, h))[i])]
                       ELSE <<>>
       IN  [counts |-> [t \in 0..6 |->
                          IF HasFlag(flags, COUNT_PRIMES * 2^t)
                          THEN Cardinality(FinderHits(t, l, h)) ELSE 0],
            lines |-> FlatMap(Lines, 0, 6),
            primes |-> IF HasFlag(flags, CALLBACK_PRIMES)
                       THEN [i \in 1..Cardinality(FinderHits(0, l, h)) |->
                               U64(InScanOrder(FinderHits(0, l, h))[i][1])]
                       ELSE <<>>]

\* the intervals whose sieving the model computes: small ones, a single even
\* number, or any interval when nothing is counted, printed or called back
Computable(start, stop, flags) ==
  \/ FitsInt(stop) /\ Val(stop) <= MaxN
  \/ ~WantsResults(flags)
  \/ (start = stop /\ stop[4] % 2 = 0 /\ U64Lt(U64(2), stop))

(***************************************************************************)
(* PrimeSieve (soe/PrimeSieve.cpp)                                         *)
(***************************************************************************)
\* status_ is segments / range * 100; "unset" is -1.0 and "full" is 100.0
StatusUnset == [kind |-> "unset", segments |-> U64(0), range |-> U64(1)]
StatusFull == [kind |-> "full", segments |-> U64(1), range |-> U64(1)]

\* static_cast<int> (status_)
StatusInt(st) ==
  CASE st.kind = "unset" -> 0 - 1
    [] st.kind = "full" -> 100
    [] OTHER -> (Val(st.segments) * 100) \div Val(st.range)

\* a doStatus without the clamp to 100.0
doStatus_Unclamped(o, segment) ==
  LET seg == U64Add(o.segments_, segment)
      range == U64Add(U64(1), U64Sub(o.stopNumber_, o.startNumber_))
      st == [kind |-> "ratio", segments |-> seg, range |-> range]
  IN  [o EXCEPT !.segments_ = seg,
                !.status_ = st,
                !.stdout = IF HasFlag(o.flags_, PRINT_STATUS)
                              /\ StatusInt(st) > StatusInt(o.status_)
                           THEN Append(@, "\r" \o ToString(StatusInt(st)) \o "%")
                           ELSE @]

\* doStatus(segment) on the object itself
doStatus(o, segment) ==
  LET seg == U64Add(o.segments_, segment)
      range == U64Add(U64(1), U64Sub(o.stopNumber_, o.startNumber_))
      st == IF U64Le(range, seg)
            THEN StatusFull
            ELSE [kind |-> "ratio", segments |-> seg, range |-> range]
  IN  [o EXCEPT !.segments_ = seg,
                !.status_ = st,
                !.stdout = IF HasFlag(o.flags_, PRINT_STATUS)
                              /\ StatusInt(st) > StatusInt(o.status_)
                           THEN Append(@, "\r" \o ToString(StatusInt(st)) \o "%")
                           ELSE @]

\* a reset() that keeps the counts of the session before
resetOwn_KeepsCounts(o) ==
  [o EXCEPT !.segments_ = U64(0),
            !.status_ = StatusUnset]

\* reset() up to its call of parent_->doStatus(0)
resetOwn(o) ==
  [o EXCEPT !.segments_ = U64(0),
            !.counts_ = [i \in 0..(COUNTS_SIZE - 1) |-> 0],
            !.status_ = StatusUnset]

\* reset() of an object that is its own parent
reset(o) == doStatus(resetOwn(o), U64(0))

\* PrimeSieve::PrimeSieve()
NewPrimeSieve ==
  reset([startNumber_ |-> U64(0), stopNumber_ |-> U64(0),
         sieveSize_ |-> 64 * 1024, flags_ |-> COUNT_PRIMES,
         callback |-> FALSE,
         segments_ |-> U64(0), counts_ |-> [i \in 0..(COUNTS_SIZE - 1) |-> 0],
         status_ |-> StatusUnset,
         stdout |-> <<>>, callbackArgs |-> <<>>])

\* prime[0] - '0' as a uint64_t: the digit of "2", "3", "5", and '(' - '0' = -8
\* for the k-tuplets
FirstCharMinusZero(prime) ==
  CASE prime = "2" -> U64(2)
    [] prime = "3" -> U64(3)
    [] prime = "5" -> U64(5)
    [] OTHER -> U64Sub(U64(0), U64(8))

\* a doSmallPrime that takes an item whose last member is the stop number
\* to lie outside
doSmallPrime_StrictStop(o, low, high, type, prime) ==
  IF U64Le(o.startNumber_, U64(low)) /\ U64Lt(U64(high), o.stopNumber_)
  THEN [o EXCEPT
          !.counts_[type] = IF HasFlag(o.flags_, COUNT_PRIMES * 2^type)
                            THEN @ + 1 ELSE @,
          !.stdout = IF HasFlag(o.flags_, PRINT_PRIMES * 2^type)
                     THEN Append(@, prime) ELSE @,
          !.callbackArgs = IF HasFlag(o.flags_, CALLBACK_PRIMES)
                           THEN Append(@, FirstCharMinusZero(prime)) ELSE @]
  ELSE o

doSmallPrime(o, low, high, type, prime) ==
  IF U64Le(o.startNumber_, U64(low)) /\ U64Le(U64(high), o.stopNumber_)
  THEN [o EXCEPT
          !.counts_[type] = IF HasFlag(o.flags_, COUNT_PRIMES * 2^type)
                            THEN @ + 1 ELSE @,
          !.stdout = IF HasFlag(o.flags_, PRINT_PRIMES * 2^type)
                     THEN Append(@, prime) ELSE @,
          !.callbackArgs = IF HasFlag(o.flags_, CALLBACK_PRIMES)
                           THEN Append(@, FirstCharMinusZero(prime)) ELSE @]
  ELSE o

\* a pre-list that is skipped when the start number is 5
smallPrimes_Below5(o) ==
  IF U64Lt(o.startNumber_, U64(5))
  THEN LET o1 == doSmallPrime(o, 2, 2, 0, "2")
           o2 == doSmallPrime(o1, 3, 3, 0, "3")
           o3 == doSmallPrime(o2, 5, 5, 0, "5")
           o4 == doSmallPrime(o3, 3, 5, 1, "(3, 5)")
           o5 == doSmallPrime(o4, 5, 7, 1, "(5, 7)")
           o6 == doSmallPrime(o5, 5, 11, 2, "(5, 7, 11)")
           o7 == doSmallPrime(o6, 5, 13, 3, "(5, 7, 11, 13)")
       IN  doSmallPrime(o7, 5, 17, 4, "(5, 7, 11, 13, 17)")
  ELSE o

\* sieve(): "small primes have to be examined manually"
smallPrimes(o) ==
  IF U64Le(o.startNumber_, U64(5))
  THEN LET o1 == doSmallPrime(o, 2, 2, 0, "2")
           o2 == doSmallPrime(o1, 3, 3, 0, "3")
           o3 == doSmallPrime(o2, 5, 5, 0, "5")
           o4 == doSmallPrime(o3, 3, 5, 1, "(3, 5)")
           o5 == doSmallPrime(o4, 5, 7, 1, "(5, 7)")
           o6 == doSmallPrime(o5, 5, 11, 2, "(5, 7, 11)")
           o7 == doSmallPrime(o6, 5, 13, 3, "(5, 7, 11, 13)")
       IN  doSmallPrime(o7, 5, 17, 4, "(5, 7, 11, 13, 17)")
  ELSE o

\* a finder that always starts at 7
finderStart_Always7(o) == U64(7)

\* the start number given to the PrimeNumberFinder
finderStart(o) ==
  IF U64Lt(U64(7), o.startNumber_) THEN o.startNumber_ ELSE U64(7)

\* a sieve() that assigns the finder's counts instead of adding them
sieveFinder_Assigns(o) ==
  IF U64Le(U64(7), o.stopNumber_)
  THEN LET f == FinderRun(finderStart(o), o.stopNumber_, o.flags_)
       IN  [o EXCEPT
              !.counts_ = [i \in 0..(COUNTS_SIZE - 1) |-> f.counts[i]],
              !.stdout = @ \o f.lines,
              !.callbackArgs = @ \o f.primes]
  ELSE o

\* sieve(): the PrimeNumberFinder of [max(start, 7), stop] and its counts
sieveFinder(o) ==
  IF U64Le(U64(7), o.stopNumber_)
  THEN LET f == FinderRun(finderStart(o), o.stopNumber_, o.flags_)
       IN  [o EXCEPT
              !.counts_ = [i \in 0..(COUNTS_SIZE - 1) |-> @[i] + f.counts[i]],
              !.stdout = @ \o f.lines,
              !.callbackArgs = @ \o f.primes]
  ELSE o

\* a sieve session without the small primes
sieveOwn_NoSmallPrimes(o) == sieveFinder(resetOwn(o))

\* sieve() after its argument check, without the calls of parent_->doStatus:
\* what a sieve session does to the object itself
sieveOwn(o) == sieveFinder(smallPrimes(resetOwn(o)))

\* the calls of parent_->doStatus made by a sieve session of o, applied to
\* its parent p: reset(), the finder over its interval, and doStatus(10)
sieveStatus(p, o) ==
  LET p1 == doStatus(p, U64(0))
      p2 == IF U64Le(U64(7), o.stopNumber_)
            THEN doStatus(p1, U64Add(U64(1), U64Sub(o.stopNumber_, finderStart(o))))
            ELSE p1
  IN  doStatus(p2, U64(10))

\* sieve() of an object that is its own parent, after the argument check
sieve(o) == sieveStatus(sieveOwn(o), o)

(***************************************************************************)
(* PrimeSieve setters: each returns the object and the exception raised    *)
(***************************************************************************)
Ok(o) == [obj |-> o, err |-> "none"]
Throw(o, e) == [obj |-> o, err |-> e]

\* a setStartNumber that accepts UINT64_MAX - UINT32_MAX * 10
setStartNumber_AcceptsLimit(o, startNumber) ==
  IF U64Lt(StopLimit, startNumber)
  THEN Throw(o, "invalid_argument")
  ELSE Ok([o EXCEPT !.startNumber_ = startNumber])

setStartNumber(o, startNumber) ==
  IF U64Le(StopLimit, startNumber)
  THEN Throw(o, "invalid_argument")
  ELSE Ok([o EXCEPT !.startNumber_ = startNumber])

setStopNumber(o, stopNumber) ==
  IF U64Le(StopLimit, stopNumber)
  THEN Throw(o, "invalid_argument")
  ELSE Ok([o EXCEPT !.stopNumber_ = stopNumber])

\* a setSieveSize without the power of 2 check
setSieveSize_NoPowerOf2Check(o, sieveSize) ==
  IF sieveSize < 1 \/ sieveSize > 8192
  THEN Throw(o, "invalid_argument")
  ELSE Ok([o EXCEPT !.sieveSize_ = sieveSize * 1024])

setSieveSize(o, sieveSize) ==
  IF sieveSize < 1 \/ sieveSize > 8192
  THEN Throw(o, "invalid_argument")
  ELSE IF ~isPowerOf2(sieveSize)
  THEN Throw(o, "invalid_argument")
  ELSE Ok([o EXCEPT !.sieveSize_ = sieveSize * 1024])

setFlags(o, flags) == [o EXCEPT !.flags_ = flags]

getSieveSize(o) == o.sieveSize_ \div 1024

\* sieve() with its argument check
sieveChecked(o) ==
  IF U64Lt(o.stopNumber_, o.startNumber_)
  THEN Throw(o, "invalid_argument")
  ELSE Ok(sieve(o))

\* a child that does not take its start number
setChildPrimeSieve_NoStart(o, startNumber, stopNumber, parent) ==
  LET r == setSieveSize([o EXCEPT !.stopNumber_ = stopNumber],
                        getSieveSize(parent))
  IN  IF r.err # "none" THEN r ELSE Ok(setFlags(r.obj, parent.flags_))

\* setChildPrimeSieve(startNumber, stopNumber, parent) on a new PrimeSieve
setChildPrimeSieve(o, startNumber, stopNumber, parent) ==
  LET r == setSieveSize([o EXCEPT !.startNumber_ = startNumber,
                                  !.stopNumber_ = stopNumber],
                        getSieveSize(parent))
  IN  IF r.err # "none" THEN r ELSE Ok(setFlags(r.obj, parent.flags_))

(***************************************************************************)
(* CpuInfo (CpuInfo.cpp)                                                   *)
(***************************************************************************)
\* a hasL1Cache without its lower bound
hasL1Cache_NoLowerBound(c) == U64Le(c.cacheSizes_[1], U64(2^30))

hasL1Cache(c) ==
  U64Le(U64(2^12), c.cacheSizes_[1]) /\ U64Le(c.cacheSizes_[1], U64(2^30))

\* 1ull << 40 is <<0, 2^8, 0, 0>>
hasL2Cache(c) ==
  U64Le(U64(2^12), c.cacheSizes_[2]) /\ U64Le(c.cacheSizes_[2], <<0, 2^8, 0, 0>>)

hasL2Sharing(c) ==
  U64Le(U64(1), c.cacheSharing_[2]) /\ U64Le(c.cacheSharing_[2], U64(2^20))

hasThreadsPerCore(c) ==
  U64Le(U64(1), c.threadsPerCore_) /\ U64Le(c.threadsPerCore_, U64(2^10))

\* a private-L2 test that does not compare the sharing with the threads per core
hasPrivateL2Cache_AnySharing(c) ==
  /\ hasL2Cache(c)
  /\ hasL2Sharing(c)
  /\ hasThreadsPerCore(c)

\* called privateL2Cache() by api.cpp
hasPrivateL2Cache(c) ==
  /\ hasL2Cache(c)
  /\ hasL2Sharing(c)
  /\ hasThreadsPerCore(c)
  /\ U64Le(c.cacheSharing_[2], c.threadsPerCore_)

\* called l2Threads() by api.cpp
l2Sharing(c) == c.cacheSharing_[2]

(***************************************************************************)
(* api.cpp: the settings                                                   *)
(***************************************************************************)
\* get_sieve_size(stop) after the test of sieve_size: the size made from the
\* cache sizes
cacheSieveSize(stop, fits) ==
  LET l1CacheSize == U64Div(cpuInfo.cacheSizes_[1], 1024)
      l2CacheSize == U64Div(cpuInfo.cacheSizes_[2], 1024)
  IN  IF /\ hasL2Cache(cpuInfo)
         /\ hasPrivateL2Cache(cpuInfo)
         /\ U64Lt(l1CacheSize, l2CacheSize)
      THEN LET size == floorPow2(inBetweenU64(32,
                         U64Div(l2CacheSize, inBetweenU64(1, l2Sharing(cpuInfo), 4)),
                         4096))
           IN  IF fits THEN size
               ELSE floorPow2(inBetweenU64(32, l2CacheSize, 4096))
      ELSE LET l1 == IF ~hasL1Cache(cpuInfo) THEN U64(32) ELSE l1CacheSize
           IN  floorPow2(inBetweenU64(8, l1, 4096))

\* a get_sieve_size that does not round the L1 cache size down to a power of two
get_sieve_size_L1Unrounded(stop, fits) ==
  IF sieve_size # 0 THEN sieve_size
  ELSE
    LET l1CacheSize == U64Div(cpuInfo.cacheSizes_[1], 1024)
        l2CacheSize == U64Div(cpuInfo.cacheSizes_[2], 1024)
    IN  IF /\ hasL2Cache(cpuInfo)
           /\ hasPrivateL2Cache(cpuInfo)
           /\ U64Lt(l1CacheSize, l2CacheSize)
        THEN LET size == floorPow2(inBetweenU64(32,
                           U64Div(l2CacheSize, inBetweenU64(1, l2Sharing(cpuInfo), 4)),
                           4096))
             IN  IF fits THEN size
                 ELSE floorPow2(inBetweenU64(32, l2CacheSize, 4096))
        ELSE LET l1 == IF ~hasL1Cache(cpuInfo) THEN U64(32) ELSE l1CacheSize
             IN  inBetweenU64(8, l1, 4096)

\* get_sieve_size(stop); fits is the value of EratBig::fitsIntoCache(stop, size * 1024)
get_sieve_size(stop, fits) ==
  IF sieve_size # 0 THEN sieve_size ELSE cacheSieveSize(stop, fits)

get_num_threads ==
  IF num_threads # 0 THEN num_threads ELSE MaxHwThreads

(***************************************************************************)
(* Inputs                                                                  *)
(***************************************************************************)
\* what the CPU probe may have stored: nothing, valid sizes, nonsense
CacheSizeChoices ==
  {U64(0), U64(4095), U64(32 * 1024), U64(48 * 1024), U64(256 * 1024),
   U64(2^20 + 512), U64(8 * 2^20), U64(2^30 + 1024), <<0, 2^8, 0, 1>>, UINT64_MAX}

SharingChoices == {U64(0), U64(1), U64(2), U64(3), U64(8), UINT64_MAX}

CpuInfoOf(l1, l2, sharing, tpc) ==
  [cacheSizes_ |-> [i \in 0..3 |-> IF i = 1 THEN l1 ELSE IF i = 2 THEN l2 ELSE U64(0)],
   cacheSharing_ |-> [i \in 0..3 |-> IF i = 2 THEN sharing ELSE U64(0)],
   threadsPerCore_ |-> tpc,
   error_ |-> ""]

CpuInfoChoices ==
  {CpuInfoOf(l1, l2, sh, tpc) :
     l1 \in CacheSizeChoices, l2 \in CacheSizeChoices,
     sh \in SharingChoices, tpc \in {U64(0), U64(1), U64(2), UINT64_MAX}}

\* a machine with a 32 KiB L1 cache and a private 256 KiB L2 cache
CpuInfoTypical == CpuInfoOf(U64(32 * 1024), U64(256 * 1024), U64(1), U64(1))

\* INT_MAX, the largest int argument
IntMax == (2^30 - 1) + 2^30

SieveSizeArgs ==
  {0 - IntMax, 0 - 1, 0, 1, 7, 8, 9, 15, 16, 31, 100, 1024, 4095, 4096, 4097, 8192, IntMax}

NumThreadsArgs == {0 - IntMax, 0 - 1, 0, IntMax} \cup (1..(MaxHwThreads + 1))

NoCall == [op |-> "none", args |-> <<>>]

(***************************************************************************)
(* api.cpp: set_sieve_size, set_num_threads and the getters                *)
(***************************************************************************)
\* a set_sieve_size that only clamps
set_sieve_size_ClampOnly(kilobytes) ==
  /\ pc = "idle"
  /\ sieve_size' = inBetween(8, kilobytes, 4096)
  /\ call' = [op |-> "set_sieve_size", args |-> <<kilobytes>>]
  /\ ret' = 0
  /\ err' = "none"
  /\ pc' = "returned"
  /\ UNCHANGED <<frame, num_threads, cpuInfo, ps, workers>>

set_sieve_size(kilobytes) ==
  /\ pc = "idle"
  /\ sieve_size' = floorPow2(inBetween(8, kilobytes, 4096))
  /\ call' = [op |-> "set_sieve_size", args |-> <<kilobytes>>]
  /\ ret' = 0
  /\ err' = "none"
  /\ pc' = "returned"
  /\ UNCHANGED <<frame, num_threads, cpuInfo, ps, workers>>

\* a set_num_threads whose lower bound is 0
set_num_threads_From0(threads) ==
  /\ pc = "idle"
  /\ num_threads' = inBetween(0, threads, MaxHwThreads)
  /\ call' = [op |-> "set_num_threads", args |-> <<threads>>]
  /\ ret' = 0
  /\ err' = "none"
  /\ pc' = "returned"
  /\ UNCHANGED <<frame, sieve_size, cpuInfo, ps, workers>>

set_num_threads(threads) ==
  /\ pc = "idle"
  /\ num_threads' = inBetween(1, threads, MaxHwThreads)
  /\ call' = [op |-> "set_num_threads", args |-> <<threads>>]
  /\ ret' = 0
  /\ err' = "none"
  /\ pc' = "returned"
  /\ UNCHANGED <<frame, sieve_size, cpuInfo, ps, workers>>

\* a get_sieve_size that stores the size it computed in sieve_size
GetSieveSize_Caches(stop) ==
  /\ pc = "idle"
  /\ \E fits \in BOOLEAN : ret' = get_sieve_size(stop, fits)
  /\ sieve_size' = ret'
  /\ call' = [op |-> "get_sieve_size", args |-> <<stop>>]
  /\ err' = "none"
  /\ pc' = "returned"
  /\ UNCHANGED <<frame, num_threads, cpuInfo, ps, workers>>

\* get_sieve_size(stop) and get_sieve_size(), which is get_sieve_size(0)
GetSieveSize(stop) ==
  /\ pc = "idle"
  /\ \E fits \in BOOLEAN : ret' = get_sieve_size(stop, fits)
  /\ call' = [op |-> "get_sieve_size", args |-> <<stop>>]
  /\ err' = "none"
  /\ pc' = "returned"
  /\ UNCHANGED <<frame, sieve_size, num_threads, cpuInfo, ps, workers>>

GetNumThreads ==
  /\ pc = "idle"
  /\ ret' = get_num_threads
  /\ call' = [op |-> "get_num_threads", args |-> <<>>]
  /\ err' = "none"
  /\ pc' = "returned"
  /\ UNCHANGED <<frame, sieve_size, num_threads, cpuInfo, ps, workers>>

(***************************************************************************)
(* api.cpp: count_primes .. count_sextuplets, on a ParallelSieve           *)
(***************************************************************************)
\* r if it raised, else Op of its object
Then(r, Op(_)) == IF r.err # "none" THEN r ELSE Op(r.obj)

\* ParallelSieve ps; ps.setSieveSize(sieveSize); ps.sieve(start, stop, flags)
\* up to the argument check of sieve()
prepare(start, stop, flags, sieveSize) ==
  LET r1 == setSieveSize(NewPrimeSieve, sieveSize)
      r2 == Then(r1, LAMBDA o : setStartNumber(o, start))
      r3 == Then(r2, LAMBDA o : setStopNumber(o, stop))
      r4 == Then(r3, LAMBDA o : Ok(setFlags(o, flags)))
  IN  Then(r4, LAMBDA o : IF U64Lt(o.stopNumber_, o.startNumber_)
                          THEN Throw(o, "invalid_argument") ELSE Ok(o))

\* the elements of a set of numbers, ascending
RECURSIVE Ascending(_)
Ascending(S) ==
  IF S = {} THEN <<>>
  ELSE LET m == CHOOSE x \in S : \A y \in S : x <= y
       IN  <<m>> \o Ascending(S \ {m})

\* the sets of at most m cuts taken from S
RECURSIVE CutSets(_, _)
CutSets(S, m) ==
  IF m = 0 THEN {{}}
  ELSE LET fewer == CutSets(S, m - 1)
       IN  fewer \cup {c \cup {x} : c \in fewer, x \in S}

\* the sub-intervals of [start, stop] that end at the cuts and at stop
Tiles(start, stop, cuts) ==
  LET c == Ascending(cuts)
      n == Len(c) + 1
  IN  [i \in 1..n |->
         [lo |-> IF i = 1 THEN start ELSE c[i - 1] + 1,
          hi |-> IF i = n THEN stop ELSE c[i]]]

\* the child of a worker: a new PrimeSieve given its sub-interval
Child(parent, tile) ==
  setChildPrimeSieve(NewPrimeSieve, U64(tile.lo), U64(tile.hi), parent).obj

\* the sum of the workers' counts
RECURSIVE SumCounts(_, _)
SumCounts(ws, i) ==
  IF i = 0 THEN 0 ELSE SumCounts(ws, i - 1) + ws[Len(ws) + 1 - i]

MergedCounts(ws) ==
  [t \in 0..(COUNTS_SIZE - 1) |->
     SumCounts([i \in 1..Len(ws) |-> ws[i].ps.counts_[t]], Len(ws))]

\* count_primes (type 0) .. count_sextuplets (type 5)
Count(type, start, stop) ==
  /\ pc = "idle"
  /\ call' = [op |-> "count", args |-> <<type, start, stop>>]
  /\ \E sieveSize \in {get_sieve_size(U64(stop), fits) : fits \in BOOLEAN} :
     \E r \in {prepare(U64(start), U64(stop), COUNT_PRIMES * 2^type, sieveSize)} :
       IF r.err # "none"
       THEN /\ ps' = r.obj
            /\ err' = r.err
            /\ ret' = 0
            /\ workers' = <<>>
            /\ pc' = "returned"
       ELSE \E cuts \in CutSets(start..(stop - 1), get_num_threads - 1) :
              /\ err' = "none"
              /\ IF cuts = {}
                 THEN /\ ps' = sieve(r.obj)
                      /\ ret' = ps'.counts_[type]
                      /\ workers' = <<>>
                      /\ pc' = "returned"
                 ELSE /\ ps' = reset(r.obj)
                      /\ ret' = 0
                      /\ \E tiles \in {Tiles(start, stop, cuts)} :
                           workers' = [i \in 1..Len(tiles) |->
                                         [ps |-> Child(r.obj, tiles[i]), done |-> FALSE]]
                      /\ pc' = "running"
  /\ UNCHANGED <<frame, sieve_size, num_threads, cpuInfo>>

\* a worker thread: sieve() of its child; the status goes to the parent
WorkerSieve(i) ==
  /\ pc = "running"
  /\ i \in 1..Len(workers)
  /\ ~workers[i].done
  /\ workers' = [workers EXCEPT ![i] = [ps |-> sieveOwn(@.ps), done |-> TRUE]]
  /\ ps' = sieveStatus(ps, workers[i].ps)
  /\ UNCHANGED <<frame, sieve_size, num_threads, cpuInfo, pc, call, ret, err>>

\* all workers have finished: their counts are summed and the call returns
Join ==
  /\ pc = "running"
  /\ \A i \in 1..Len(workers) : workers[i].done
  /\ ps' = [ps EXCEPT !.counts_ = MergedCounts(workers)]
  /\ ret' = ps'.counts_[call.args[1]]
  /\ pc' = "returned"
  /\ UNCHANGED <<frame, sieve_size, num_threads, cpuInfo, workers, call, err>>

\* the call returns to its caller: the sieve object, a local of the call, is
\* destroyed and the next call may start
Return ==
  /\ pc = "returned"
  /\ pc' = "idle"
  /\ ps' = NewPrimeSieve
  /\ workers' = <<>>
  /\ call' = NoCall
  /\ ret' = 0
  /\ err' = "none"
  /\ UNCHANGED <<frame, sieve_size, num_threads, cpuInfo>>

Init ==
  /\ sieve_size = 0
  /\ num_threads = 0
  /\ cpuInfo = CpuInfoTypical
  /\ ps = NewPrimeSieve
  /\ workers = <<>>
  /\ pc = "idle"
  /\ call = NoCall
  /\ ret = 0
  /\ err = "none"
  /\ frame = NoFrame

\* count_primes with any number of threads
Next ==
  \/ \E n \in (0 - 1)..(MaxHwThreads - 1) : set_num_threads(n)
  \/ pc = "idle" /\ \E start \in 0..MaxStop, stop \in 0..MaxStop : Count(0, start, stop)
  \/ \E i \in 1..MaxHwThreads : WorkerSieve(i)
  \/ Join
  \/ Return

Spec == Init /\ [][Next]_vars

\* count_twins .. count_sextuplets with any number of threads
NextTuplets ==
  \/ \E n \in (0 - 1)..(MaxHwThreads - 1) : set_num_threads(n)
  \/ pc = "idle" /\ \E type \in 1..5, start \in 0..MaxStop, stop \in 0..MaxStop :
                     Count(type, start, stop)
  \/ \E i \in 1..MaxHwThreads : WorkerSieve(i)
  \/ Join
  \/ Return

SpecTuplets == Init /\ [][NextTuplets]_vars

(***************************************************************************)
(* The settings alone, on any machine                                      *)
(***************************************************************************)
InitSettings ==
  /\ sieve_size = 0
  /\ num_threads = 0
  /\ cpuInfo \in CpuInfoChoices
  /\ ps = NewPrimeSieve
  /\ workers = <<>>
  /\ pc = "idle"
  /\ call = NoCall
  /\ ret = 0
  /\ err = "none"
  /\ frame = NoFrame

NextSettings ==
  \/ pc = "idle" /\ \E k \in SieveSizeArgs : set_sieve_size(k)
  \/ pc = "idle" /\ \E n \in NumThreadsArgs : set_num_threads(n)
  \/ pc = "idle" /\ \E stop \in {U64(0), U64(MaxStop), StopLimit} : GetSieveSize(stop)
  \/ GetNumThreads
  \/ Return

SpecSettings == InitSettings /\ [][NextSettings]_vars

(***************************************************************************)
(* A PrimeSieve object used directly: it is constructed, given a start     *)
(* number, a stop number and flags, and sieved; or asked for               *)
(* getPrimeCount(start, stop) or generatePrimes(start, stop, callback).    *)
(***************************************************************************)
\* the values around the limit of setStartNumber and setStopNumber
NearLimit ==
  {U64Sub(StopLimit, U64(2)), U64Sub(StopLimit, U64(1)), StopLimit,
   U64Add(StopLimit, U64(1)), UINT64_MAX}

ObjNumbers == {U64(n) : n \in 0..MaxN} \cup NearLimit

FlagChoices ==
  {0, COUNT_SEPTUPLETS * 2 - 1, CALLBACK_PRIMES}
    \cup {COUNT_PRIMES * 2^t : t \in 0..6}
    \cup {PRINT_PRIMES * 2^t : t \in 0..6}
    \cup {(COUNT_PRIMES + PRINT_PRIMES) * 2^t : t \in 0..6}

Construct ==
  /\ call.op # "PrimeSieve"
  /\ ps' = NewPrimeSieve
  /\ call' = [op |-> "PrimeSieve", args |-> <<>>]
  /\ ret' = 0
  /\ err' = "none"
  /\ UNCHANGED <<frame, sieve_size, num_threads, cpuInfo, workers, pc>>

\* a call of a setter: the object and the exception it leaves
Called(op, args, r) ==
  /\ ps' = r.obj
  /\ err' = r.err
  /\ call' = [op |-> op, args |-> args]
  /\ ret' = 0
  /\ UNCHANGED <<frame, sieve_size, num_threads, cpuInfo, workers, pc>>

SetStartNumber(startNumber) ==
  /\ call.op = "PrimeSieve"
  /\ Called("setStartNumber", <<startNumber>>, setStartNumber(ps, startNumber))

SetStopNumber(stopNumber) ==
  /\ call.op = "setStartNumber"
  /\ err = "none"
  /\ Called("setStopNumber", <<stopNumber>>, setStopNumber(ps, stopNumber))

SetFlags(flags) ==
  /\ call.op = "setStopNumber"
  /\ err = "none"
  /\ Called("setFlags", <<flags>>, Ok(setFlags(ps, flags)))

Sieve ==
  /\ call.op = "setFlags"
  /\ \/ U64Lt(ps.stopNumber_, ps.startNumber_)
     \/ Computable(ps.startNumber_, ps.stopNumber_, ps.flags_)
  /\ Called("sieve", <<>>, sieveChecked(ps))

\* getPrimeCount(startNumber, stopNumber): the object and the exception; the
\* value returned is counts_[0] of the object
getPrimeCountIn(o, startNumber, stopNumber) ==
  Then(Then(setStartNumber(o, startNumber), LAMBDA q : setStopNumber(q, stopNumber)),
       LAMBDA q : sieveChecked(setFlags(q, COUNT_PRIMES)))

\* a generatePrimes that tests the callback after the setters
generatePrimes_LateNullCheck(o, startNumber, stopNumber, callback) ==
  Then(Then(setStartNumber(o, startNumber), LAMBDA q : setStopNumber(q, stopNumber)),
       LAMBDA q : IF ~callback
                  THEN Throw(setFlags(q, CALLBACK_PRIMES), "invalid_argument")
                  ELSE sieveChecked([setFlags(q, CALLBACK_PRIMES)
                                       EXCEPT !.callback = callback]))

\* generatePrimes(startNumber, stopNumber, callback, cbObj); callback is
\* FALSE for NULL
generatePrimes(o, startNumber, stopNumber, callback) ==
  IF ~callback
  THEN Throw(o, "invalid_argument")
  ELSE Then(Then(setStartNumber(o, startNumber), LAMBDA q : setStopNumber(q, stopNumber)),
            LAMBDA q : sieveChecked([setFlags(q, CALLBACK_PRIMES)
                                       EXCEPT !.callback = callback]))

\* getPrimeCount(startNumber, stopNumber)
GetPrimeCount(startNumber, stopNumber) ==
  /\ call.op \in {"PrimeSieve", "setSieveSize"}
  /\ \/ U64Lt(stopNumber, startNumber)
     \/ Computable(startNumber, stopNumber, COUNT_PRIMES)
  /\ \E r \in {getPrimeCountIn(ps, startNumber, stopNumber)} :
       /\ ps' = r.obj
       /\ err' = r.err
       /\ ret' = IF r.err = "none" THEN r.obj.counts_[0] ELSE 0
  /\ call' = [op |-> "getPrimeCount", args |-> <<startNumber, stopNumber>>]
  /\ UNCHANGED <<frame, sieve_size, num_threads, cpuInfo, workers, pc>>

\* generatePrimes(startNumber, stopNumber, callback, cbObj); callback is
\* FALSE for NULL
GeneratePrimes(startNumber, stopNumber, callback) ==
  /\ call.op = "PrimeSieve"
  /\ \/ U64Lt(stopNumber, startNumber)
     \/ Computable(startNumber, stopNumber, CALLBACK_PRIMES)
  /\ \E r \in {generatePrimes(ps, startNumber, stopNumber, callback)} :
       /\ ps' = r.obj
       /\ err' = r.err
  /\ ret' = 0
  /\ call' = [op |-> "generatePrimes", args |-> <<startNumber, stopNumber, callback>>]
  /\ UNCHANGED <<frame, sieve_size, num_threads, cpuInfo, workers, pc>>

InitObj ==
  /\ sieve_size = 0
  /\ num_threads = 0
  /\ cpuInfo = CpuInfoTypical
  /\ ps = NewPrimeSieve
  /\ workers = <<>>
  /\ pc = "idle"
  /\ call = [op |-> "PrimeSieve", args |-> <<>>]
  /\ ret = 0
  /\ err = "none"
  /\ frame = NoFrame

NextObj ==
  \/ Construct
  \/ call.op = "PrimeSieve" /\ \E x \in ObjNumbers : SetStartNumber(x)
  \/ call.op = "setStartNumber" /\ \E x \in ObjNumbers : SetStopNumber(x)
  \/ call.op = "setStopNumber" /\ \E f \in FlagChoices : SetFlags(f)
  \/ Sieve
  \/ call.op = "PrimeSieve" /\ \E a \in ObjNumbers, b \in ObjNumbers : GetPrimeCount(a, b)
  \/ call.op = "PrimeSieve" /\ \E a \in ObjNumbers, b \in ObjNumbers, cb \in BOOLEAN :
                                 GeneratePrimes(a, b, cb)

SpecObj == InitObj /\ [][NextObj]_vars

(***************************************************************************)
(* Reference definitions for the properties                                *)
(***************************************************************************)
PrimesIn(a, b) == {p \in a..b : IsPrime(p)}

\* the prime k-tuplets as patterns of differences (k = 2 twins .. 7 septuplets)
Constellations ==
  [k \in 2..7 |->
     CASE k = 2 -> {{0, 2}}
       [] k = 3 -> {{0, 2, 6}, {0, 4, 6}}
       [] k = 4 -> {{0, 2, 6, 8}}
       [] k = 5 -> {{0, 2, 6, 8, 12}, {0, 4, 6, 10, 12}}
       [] k = 6 -> {{0, 4, 6, 10, 12, 16}}
       [] k = 7 -> {{0, 2, 6, 8, 12, 18, 20}, {0, 2, 8, 12, 14, 18, 20}}]

\* the k-tuplets, as sets of primes, all of whose members lie in [a, b]
TupletsIn(k, a, b) ==
  {c \in {{p + d : d \in pat} : p \in a..b, pat \in Constellations[k]} :
     \A q \in c : q <= b /\ IsPrime(q)}

\* the items of type t (0 = primes, t = k - 1 for k-tuplets) in [a, b]
ItemsIn(t, a, b) ==
  IF t = 0 THEN {{p} : p \in PrimesIn(a, b)} ELSE TupletsIn(t + 1, a, b)

\* the result of a count call on a single thread: what sieve() of one
\* PrimeSieve over [start, stop] counts for type t
CountSingle(t, start, stop) ==
  sieve(prepare(U64(start), U64(stop), COUNT_PRIMES * 2^t, getSieveSize(ps)).obj).counts_[t]

\* a count call of type t has returned (without an exception)
Counted(t) ==
  /\ pc = "returned"
  /\ call.op = "count"
  /\ call.args[1] = t
  /\ err = "none"

\* the sub-interval of worker i
TileOf(i) == [lo |-> Val(workers[i].ps.startNumber_), hi |-> Val(workers[i].ps.stopNumber_)]

(***************************************************************************)
(* C1: count_primes(start, stop) returns for every start <= stop, and      *)
(* returns the number of primes p with start <= p <= stop.                 *)
(***************************************************************************)
C1_CountPrimesExact ==
  (pc = "returned" /\ call.op = "count" /\ call.args[1] = 0)
    => IF call.args[2] <= call.args[3]
       THEN err = "none" /\ ret = Cardinality(PrimesIn(call.args[2], call.args[3]))
       ELSE err # "none"

\* count_primes(3, 19) has returned 7: the interval starts below 7 and ends above it
C1_Witness ==
  Counted(0) /\ call.args = <<0, 3, 19>> /\ ret = 7

(***************************************************************************)
(* C2: for every cut s with start <= s <= stop, count_primes(start, stop)  *)
(* = count_primes(start, s) + count_primes(s + 1, stop).                   *)
(***************************************************************************)
\* count_primes(a, b) on one thread: the exception or the value returned
count_primes(a, b) ==
  LET r == prepare(U64(a), U64(b), COUNT_PRIMES, getSieveSize(ps))
  IN  IF r.err # "none" THEN [err |-> r.err, value |-> 0]
      ELSE [err |-> "none", value |-> sieve(r.obj).counts_[0]]

PartitionAt(s) ==
  LET left == count_primes(call.args[2], s)
      right == count_primes(s + 1, call.args[3])
  IN  /\ left.err = "none"
      /\ right.err = "none"
      /\ ret = left.value + right.value

\* the claim as stated: every cut s in start..stop, s = stop included
C2_Original ==
  Counted(0) => \A s \in call.args[2]..call.args[3] : PartitionAt(s)

\* C2 (amended): the partition holds for every cut s with start <= s < stop;
\* for s = stop the second call, count_primes(stop + 1, stop), raises
C2_PartitionBelowStop ==
  Counted(0) =>
    /\ \A s \in call.args[2]..(call.args[3] - 1) : PartitionAt(s)
    /\ count_primes(call.args[3] + 1, call.args[3]).err = "invalid_argument"

\* count_primes(2, 11) has returned: the cuts s = 2 .. 6 leave the left part
\* to the small primes alone
C2_Witness ==
  Counted(0) /\ call.args = <<0, 2, 11>> /\ ret = 5

(***************************************************************************)
(* C3: count_primes returns the same value for every number of worker      *)
(* threads: however [start, stop] is tiled and the workers interleave,     *)
(* every prime is counted by exactly one worker and the sum of the         *)
(* workers' counts is the count of a single thread.                        *)
(***************************************************************************)
C3_ThreadsInvariant ==
  Counted(0) =>
    /\ ret = CountSingle(0, call.args[2], call.args[3])
    /\ workers # <<>> =>
         /\ \A p \in PrimesIn(call.args[2], call.args[3]) :
              Cardinality({i \in 1..Len(workers) : TileOf(i).lo <= p /\ p <= TileOf(i).hi}) = 1
         /\ \A i \in 1..Len(workers) :
              workers[i].ps.counts_[0] = Cardinality(PrimesIn(TileOf(i).lo, TileOf(i).hi))

\* two workers have counted the primes of [0, 19], 2 and 3 in one worker and 5 in the other
C3_Witness ==
  /\ Counted(0)
  /\ call.args = <<0, 0, 19>>
  /\ Len(workers) = 2
  /\ TileOf(1).hi = 4
  /\ ret = 8

Unsplit(t) ==
  {c \in ItemsIn(t, call.args[2], call.args[3]) :
     \E i \in 1..Len(workers) : \A q \in c : TileOf(i).lo <= q /\ q <= TileOf(i).hi}

Sieved ==
  /\ call.op = "sieve"
  /\ err = "none"
  /\ FitsInt(ps.stopNumber_)
  /\ Val(ps.stopNumber_) <= MaxN

C5_TupletCountsExact ==
  Sieved =>
    \A k \in 2..7 :
      ps.counts_[k - 1] =
        IF HasFlag(ps.flags_, COUNT_PRIMES * 2^(k - 1))
        THEN Cardinality(TupletsIn(k, Val(ps.startNumber_), Val(ps.stopNumber_)))
        ELSE 0

\* all counts of [3, 31]: five twins, of which (3, 5) and (5, 7) are
\* pre-listed, the quintuplets (5, .., 17), (7, .., 19), (11, .., 23) and
\* the septuplet (11, .., 31)
C5_Witness ==
  /\ Sieved
  /\ ps.startNumber_ = U64(3)
  /\ ps.stopNumber_ = U64(31)
  /\ ps.counts_[1] = 5
  /\ ps.counts_[4] = 3
  /\ ps.counts_[6] = 1

(***************************************************************************)
(* C6: the primes 2, 3, 5 and the k-tuplets that contain one of them are   *)
(* emitted by the pre-list exactly once when they lie inside [start, stop] *)
(* and not at all otherwise.                                               *)
(***************************************************************************)
PreListed(low, high, type, line) == [low |-> low, high |-> high, type |-> type, line |-> line]

\* the pre-list without the pair (2, 3)
PreListItems ==
  {PreListed(2, 2, 0, "2"), PreListed(3, 3, 0, "3"), PreListed(5, 5, 0, "5"),
   PreListed(3, 5, 1, "(3, 5)"), PreListed(5, 7, 1, "(5, 7)"),
   PreListed(5, 11, 2, "(5, 7, 11)"), PreListed(5, 13, 3, "(5, 7, 11, 13)"),
   PreListed(5, 17, 4, "(5, 7, 11, 13, 17)")}

Occurrences(seq, x) == Cardinality({i \in DOMAIN seq : seq[i] = x})

InsideInterval(item) ==
  U64Le(ps.startNumber_, U64(item.low)) /\ U64Le(U64(item.high), ps.stopNumber_)

\* every item is printed once if it is inside and its print flag is set, and
\* not printed otherwise; a count whose flag is set is the number of items of
\* its type inside plus the items of that type in [max(start, 7), stop]
EmittedOnce(items) ==
  /\ \A item \in items :
       Occurrences(ps.stdout, item.line) =
         IF InsideInterval(item) /\ HasFlag(ps.flags_, PRINT_PRIMES * 2^item.type)
         THEN 1 ELSE 0
  /\ \A t \in 0..4 :
       ps.counts_[t] =
         IF HasFlag(ps.flags_, COUNT_PRIMES * 2^t)
         THEN Cardinality({item \in items : item.type = t /\ InsideInterval(item)})
              + Cardinality(ItemsIn(t, IF Val(ps.startNumber_) > 7
                                       THEN Val(ps.startNumber_) ELSE 7,
                                    Val(ps.stopNumber_)))
         ELSE 0

\* the claim as stated, with the pair (2, 3) that the spec names
C6_Original ==
  Sieved => EmittedOnce(PreListItems \cup {PreListed(2, 3, 1, "(2, 3)")})

\* C6 (amended): the primes 2, 3, 5 and the tuplets (3, 5), (5, 7),
\* (5, 7, 11), (5, 7, 11, 13), (5, 7, 11, 13, 17) are emitted by the pre-list
\* exactly once when all their members lie in [start, stop], and not at all
\* otherwise; (2, 3) is no twin and is never emitted
C6_PreListEmittedOnce ==
  Sieved =>
    /\ EmittedOnce(PreListItems)
    /\ Occurrences(ps.stdout, "(2, 3)") = 0

\* twins counted and printed over [0, 13]: (3, 5) and (5, 7) from the
\* pre-list, then (11, 13) from the finder
C6_Witness ==
  /\ Sieved
  /\ ps.flags_ = COUNT_TWINS + PRINT_TWINS
  /\ ps.startNumber_ = U64(0)
  /\ ps.stdout = <<"(3, 5)", "(5, 7)", "(11, 13)">>
  /\ ps.counts_[1] = 3

(***************************************************************************)
(* C10: a sieve request fails exactly when start or stop is at or above    *)
(* the limit, or start > stop; every other pair is accepted and sieved.    *)
(***************************************************************************)
\* a request that names start, stop and the exception it ended with
Request(limit, start, stop) ==
  (err # "none") <=> (U64Le(limit, start) \/ U64Le(limit, stop) \/ U64Lt(stop, start))

\* limit is the smallest rejected value: the setters reject exactly the values
\* at or above it, sieve() rejects exactly stop < start and sieves all else
RangeErrorsAt(limit) ==
  /\ call.op = "setStartNumber" => ((err # "none") <=> U64Le(limit, call.args[1]))
  /\ call.op = "setStopNumber" => ((err # "none") <=> U64Le(limit, call.args[1]))
  /\ call.op = "sieve" =>
       /\ (err # "none") <=> U64Lt(ps.stopNumber_, ps.startNumber_)
       /\ err = "none" => ps.status_ = StatusFull
  /\ call.op = "getPrimeCount" =>
       /\ Request(limit, call.args[1], call.args[2])
       /\ err = "none" => ps.status_ = StatusFull

\* the claim as stated: 2^64 - 10 * (2^32 - 1) = 0xFFFFFFF60000000A is the
\* smallest rejected value
C10_Original == RangeErrorsAt(<<65535, 65526, 0, 10>>)

\* C10 (amended): the limit is (2^64 - 1) - 10 * (2^32 - 1) =
\* 0xFFFFFFF600000009: that value is the smallest rejected one and
\* 0xFFFFFFF600000008 is accepted
C10_RangeErrors == RangeErrorsAt(<<65535, 65526, 0, 9>>)

\* the largest accepted value as start and stop: sieve() has run
C10_Witness ==
  /\ call.op = "sieve"
  /\ err = "none"
  /\ ps.startNumber_ = <<65535, 65526, 0, 8>>
  /\ ps.stopNumber_ = <<65535, 65526, 0, 8>>
  /\ ps.status_ = StatusFull

(***************************************************************************)
(* C7: after set_sieve_size(k), get_sieve_size() and get_sieve_size(stop)  *)
(* return the largest power of two <= min(max(k, 8), 4096), for every stop *)
(* and every CPU, until the next set_sieve_size call.                      *)
(***************************************************************************)
MinOf(a, b) == IF a <= b THEN a ELSE b
MaxOf(a, b) == IF a >= b THEN a ELSE b

\* the largest power of two <= x, for 1 <= x < 2^13
LargestPow2AtMost(x) == CHOOSE q \in {2^i : i \in 0..12} : q <= x /\ x < 2 * q

StopArgs == {U64(0), U64(MaxStop), StopLimit, UINT64_MAX}

\* right after set_sieve_size(k) every get_sieve_size gives the rounded k;
\* no other operation changes what is given; a get_sieve_size call returns it
C7_SieveSizeAfterSet ==
  /\ [](call.op = "set_sieve_size" =>
          \A stop \in StopArgs, fits \in BOOLEAN :
            get_sieve_size(stop, fits)
              = LargestPow2AtMost(MinOf(MaxOf(call.args[1], 8), 4096)))
  /\ [][(sieve_size # 0 /\ call'.op # "set_sieve_size") =>
          /\ \A stop \in StopArgs, fits \in BOOLEAN :
               get_sieve_size(stop, fits)' = get_sieve_size(stop, fits)
          /\ call'.op = "get_sieve_size" => ret' = get_sieve_size(U64(0), TRUE)]_vars

\* set_sieve_size(100) on a machine whose caches alone would give 256:
\* get_sieve_size has returned 64
C7_Witness ==
  /\ call.op = "get_sieve_size"
  /\ sieve_size = 64
  /\ ret = 64
  /\ cpuInfo.cacheSizes_[2] = U64(256 * 1024)
  /\ hasPrivateL2Cache(cpuInfo)

(***************************************************************************)
(* C8: after set_num_threads(n), get_num_threads() is min(max(n, 1),       *)
(* max_hw_threads); before any set_num_threads call it is max_hw_threads;  *)
(* it is always in [1, max_hw_threads].                                    *)
(***************************************************************************)
C8_NumThreadsClamped ==
  /\ [](/\ get_num_threads \in 1..MaxHwThreads
        /\ call.op = "set_num_threads" =>
             get_num_threads = MinOf(MaxOf(call.args[1], 1), MaxHwThreads))
  /\ [][/\ num_threads' # num_threads => call'.op = "set_num_threads"
        /\ (num_threads = 0 /\ call'.op = "get_num_threads") => ret' = MaxHwThreads
        /\ (num_threads # 0 /\ call'.op = "get_num_threads") => ret' = num_threads]_vars

\* set_num_threads(0) has set one thread
C8_Witness ==
  /\ call.op = "set_num_threads"
  /\ call.args = <<0>>
  /\ num_threads = 1

(***************************************************************************)
(* C9: in every reachable state and for every stop, get_sieve_size(stop)   *)
(* is a power of two in [8, 4096], whatever set_sieve_size calls preceded  *)
(* and whatever the CPU information holds.                                 *)
(***************************************************************************)
C9_SieveSizePow2InRange ==
  /\ \A stop \in StopArgs, fits \in BOOLEAN :
       get_sieve_size(stop, fits) \in {2^i : i \in 3..12}
  /\ call.op = "get_sieve_size" => ret \in {2^i : i \in 3..12}

\* no sieve size set, an L1 size far above 4096 KiB that hasL1Cache rejects,
\* and no usable L2: get_sieve_size has returned 32
C9_Witness ==
  /\ call.op = "get_sieve_size"
  /\ sieve_size = 0
  /\ cpuInfo.cacheSizes_[1] = UINT64_MAX
  /\ ~hasL2Cache(cpuInfo)
  /\ ret = 32

(***************************************************************************)
(* The sieve size of a PrimeSieve object and of the api: the object is     *)
(* constructed, given a sieve size and asked for a prime count; the api's  *)
(* set_sieve_size is called between two objects.                           *)
(***************************************************************************)
\* the arguments of setSieveSize (uint32_t): in and out of [1, 8192], powers
\* of two and others
ObjSieveSizeArgs ==
  {0, 1, 2, 3, 5, 6, 64, 100, 1000, 4096, 8191, 8192, 8193, 16384, IntMax}

SetSieveSize(sieveSize) ==
  /\ call.op = "PrimeSieve"
  /\ Called("setSieveSize", <<sieveSize>>, setSieveSize(ps, sieveSize))

NextSieveSize ==
  \/ Construct
  \/ call.op = "PrimeSieve" /\ \E k \in ObjSieveSizeArgs : SetSieveSize(k)
  \/ call.op = "setSieveSize" /\ \E a \in 0..MaxStop, b \in 0..MaxStop :
                                   GetPrimeCount(U64(a), U64(b))
  \/ pc = "idle" /\ \E k \in SieveSizeArgs : set_sieve_size(k)
  \/ Return

SpecSieveSize == InitObj /\ [][NextSieveSize]_vars

(***************************************************************************)
(* C11: a sieve size outside [1, 8192] KiB is rejected; a size inside that *)
(* range that is not a power of two is not an error but is rounded to a    *)
(* power of two, and sieving proceeds.                                     *)
(***************************************************************************)
\* the claim as stated, of PrimeSieve::setSieveSize
C11_Original ==
  call.op = "setSieveSize" =>
    IF call.args[1] < 1 \/ call.args[1] > 8192
    THEN err = "invalid_argument"
    ELSE err = "none" /\ isPowerOf2(getSieveSize(ps))

\* C11 (amended): PrimeSieve::setSieveSize rejects a size outside [1, 8192]
\* and a size inside that range that is not a power of two, leaving the sieve
\* size as it was; a power of two of [1, 8192] is stored as given; a
\* getPrimeCount that follows sieves with the size the object has; the api's
\* set_sieve_size rejects nothing
C11_SieveSizeErrors ==
  /\ call.op = "setSieveSize" =>
       IF call.args[1] \in {2^i : i \in 0..13}
       THEN err = "none" /\ getSieveSize(ps) = call.args[1]
       ELSE err = "invalid_argument" /\ ps.sieveSize_ = NewPrimeSieve.sieveSize_
  /\ (call.op = "getPrimeCount" /\ err = "none") =>
       /\ isPowerOf2(getSieveSize(ps))
       /\ ret = Cardinality(PrimesIn(Val(call.args[1]), Val(call.args[2])))
  /\ call.op = "set_sieve_size" => err = "none" /\ sieve_size \in {2^i : i \in 3..12}

\* setSieveSize(100) has thrown and left the default of 64 KiB
C11_Witness ==
  /\ call.op = "setSieveSize"
  /\ call.args = <<100>>
  /\ err = "invalid_argument"
  /\ getSieveSize(ps) = 64

(***************************************************************************)
(* C12: generatePrimes(start, stop, callback) calls the callback exactly   *)
(* once for each prime p of [start, stop], with p as its argument, in      *)
(* strictly ascending order, and with no other argument value.             *)
(***************************************************************************)
\* generatePrimes has returned on a small interval
Generated ==
  /\ call.op = "generatePrimes"
  /\ err = "none"
  /\ FitsInt(call.args[2])
  /\ Val(call.args[2]) <= MaxN

\* the arguments of the callback are the primes of [start, stop], ascending
C12_CallbackOncePerPrime ==
  Generated =>
    ps.callbackArgs =
      LET primes == Ascending(PrimesIn(Val(call.args[1]), Val(call.args[2])))
      IN  [i \in 1..Len(primes) |-> U64(primes[i])]

(***************************************************************************)
(* CpuInfo::CpuInfo() and CpuInfo::init() (Linux), step by step.  While    *)
(* init runs, pc = "init" and call.args is its position: <<>> before       *)
(* threadsPerCore_ is set, <<i>> at the head of the loop over the cache    *)
(* indexes, <<i, level>> before cacheSizes_[level] is set and              *)
(* <<i, level, TRUE>> before cacheSharing_[level] is set.  Every step      *)
(* reads a file and parses it with stoul or at(), which throw.             *)
(***************************************************************************)
\* what the files of /sys/devices/system/cpu may hold
InitCacheSizes == {U64(0), U64(32 * 1024), U64(64 * 1024), U64(256 * 1024)}
InitSharings == {U64(0), U64(1), U64(2)}

\* the member initialisers of CpuInfo::CpuInfo()
InitCpu ==
  /\ sieve_size = 0
  /\ num_threads = 0
  /\ cpuInfo = CpuInfoOf(U64(0), U64(0), U64(0), U64(0))
  /\ ps = NewPrimeSieve
  /\ workers = <<>>
  /\ pc = "init"
  /\ call = [op |-> "CpuInfo", args |-> <<>>]
  /\ ret = 0
  /\ err = "none"
  /\ frame = NoFrame

\* threadsPerCore_ = getThreads(threadSiblingsList, threadSiblings)
init_threadsPerCore(threads) ==
  /\ pc = "init"
  /\ call.args = <<>>
  /\ cpuInfo' = [cpuInfo EXCEPT !.threadsPerCore_ = threads]
  /\ call' = [call EXCEPT !.args = <<0>>]
  /\ UNCHANGED <<frame, sieve_size, num_threads, ps, workers, pc, ret, err>>

\* size_t level = getValue(cacheLevel) and the test of the level and the type
init_level(level, cacheType) ==
  /\ pc = "init"
  /\ Len(call.args) = 1
  /\ call.args[1] <= 3
  /\ call' = [call EXCEPT !.args =
                IF level >= 1 /\ level <= 3 /\ cacheType \in {"Data", "Unified"}
                THEN <<call.args[1], level>>
                ELSE <<call.args[1] + 1>>]
  /\ UNCHANGED <<frame, sieve_size, num_threads, cpuInfo, ps, workers, pc, ret, err>>

\* cacheSizes_[level] = getValue(cacheSize)
init_cacheSize(size) ==
  /\ pc = "init"
  /\ Len(call.args) = 2
  /\ cpuInfo' = [cpuInfo EXCEPT !.cacheSizes_[call.args[2]] = size]
  /\ call' = [call EXCEPT !.args = <<call.args[1], call.args[2], TRUE>>]
  /\ UNCHANGED <<frame, sieve_size, num_threads, ps, workers, pc, ret, err>>

\* cacheSharing_[level] = getThreads(sharedCpuList, sharedCpuMap)
init_cacheSharing(sharing) ==
  /\ pc = "init"
  /\ Len(call.args) = 3
  /\ cpuInfo' = [cpuInfo EXCEPT !.cacheSharing_[call.args[2]] = sharing]
  /\ call' = [call EXCEPT !.args = <<call.args[1] + 1>>]
  /\ UNCHANGED <<frame, sieve_size, num_threads, ps, workers, pc, ret, err>>

\* the loop has ended: init() returns, and the constructor after it
init_return ==
  /\ pc = "init"
  /\ call.args = <<4>>
  /\ pc' = "returned"
  /\ UNCHANGED <<frame, sieve_size, num_threads, cpuInfo, ps, workers, call, ret, err>>

\* the step of init() that is due throws: catch (exception& e) { error_ = e.what(); }
\* and the constructor returns
init_catch ==
  /\ pc = "init"
  /\ call.args # <<4>>
  /\ cpuInfo' = [cpuInfo EXCEPT !.error_ = "what"]
  /\ pc' = "returned"
  /\ UNCHANGED <<frame, sieve_size, num_threads, ps, workers, call, ret, err>>

NextCpu ==
  \/ \E threads \in InitSharings : init_threadsPerCore(threads)
  \/ \E level \in 0..4, cacheType \in {"Data", "Instruction", "Unified"} :
       init_level(level, cacheType)
  \/ \E size \in InitCacheSizes : init_cacheSize(size)
  \/ \E sharing \in InitSharings : init_cacheSharing(sharing)
  \/ init_return
  \/ init_catch
  \/ pc = "idle" /\ \E stop \in {U64(0), U64(MaxStop), StopLimit} : GetSieveSize(stop)
  \/ Return

SpecCpu == InitCpu /\ [][NextCpu]_vars

(***************************************************************************)
(* C14: if CpuInfo::init raises an exception at any point, the exception   *)
(* does not escape the constructor, the error text is recorded, and the    *)
(* sieve size get_sieve_size then chooses is the default one (that of a    *)
(* 32 KiB L1 cache and no L2), whatever init had stored before it failed.  *)
(***************************************************************************)
C14_InitErrorGivesDefault ==
  (pc # "init" /\ cpuInfo.error_ # "") =>
    /\ err = "none"
    /\ \A stop \in StopArgs, fits \in BOOLEAN : get_sieve_size(stop, fits) = 32
    /\ call.op = "get_sieve_size" => ret = 32

(***************************************************************************)
(* C15: with no user-set sieve size, no valid L1 size (outside [4 KiB,     *)
(* 1 GiB], 0 included) and no usable L2 (absent or not private),           *)
(* get_sieve_size(stop) returns 32 for every stop; an L2 value is used     *)
(* only when hasL2Cache and the private-L2 test both hold.                 *)
(***************************************************************************)
\* x clamped to [lo, hi], for a 64-bit x and small lo, hi
Clamped(x, lo, hi) ==
  IF U64Lt(x, U64(lo)) THEN lo ELSE IF U64Lt(U64(hi), x) THEN hi ELSE Val(x)

\* the reported L1 size is in [4 KiB, 1 GiB]; 1 GiB is <<0, 0, 2^14, 0>>
L1Valid ==
  /\ ~U64Lt(cpuInfo.cacheSizes_[1], U64(4 * 1024))
  /\ ~U64Lt(<<0, 0, 2^14, 0>>, cpuInfo.cacheSizes_[1])

\* x is in [lo, hi]
Within(x, lo, hi) == ~U64Lt(x, lo) /\ ~U64Lt(hi, x)

\* the reported L2 size is in [4 KiB, 1 TiB] and the L2 is private: the
\* number of threads that share it and the number of threads per core are
\* known (in [1, 2^20] and [1, 2^10]) and the first is at most the second
L2Usable ==
  /\ Within(cpuInfo.cacheSizes_[2], U64(4 * 1024), <<0, 256, 0, 0>>)
  /\ Within(cpuInfo.cacheSharing_[2], U64(1), U64(1024 * 1024))
  /\ Within(cpuInfo.threadsPerCore_, U64(1), U64(1024))
  /\ ~U64Lt(cpuInfo.threadsPerCore_, cpuInfo.cacheSharing_[2])

\* the L1 size in KiB, 32 when the reported size is not valid
L1KiB == IF L1Valid THEN Val(cpuInfo.cacheSizes_[1]) \div 1024 ELSE 32

\* the sieve size made from the L1 size alone
FromL1 == LargestPow2AtMost(MinOf(MaxOf(L1KiB, 8), 4096))

C15_NoCacheInfoGives32 ==
  sieve_size = 0 =>
    /\ \A stop \in StopArgs, fits \in BOOLEAN :
         /\ (~L1Valid /\ ~L2Usable) => get_sieve_size(stop, fits) = 32
         /\ ~L2Usable => get_sieve_size(stop, fits) = FromL1
    /\ (call.op = "get_sieve_size" /\ ~L1Valid /\ ~L2Usable) => ret = 32

\* no L1 size at all and a 256 KiB L2 shared by 8 threads of 2-thread cores:
\* get_sieve_size has returned 32
C15_Witness ==
  /\ call.op = "get_sieve_size"
  /\ sieve_size = 0
  /\ cpuInfo.cacheSizes_[1] = U64(0)
  /\ cpuInfo.cacheSizes_[2] = U64(256 * 1024)
  /\ cpuInfo.cacheSharing_[2] = U64(8)
  /\ cpuInfo.threadsPerCore_ = U64(2)
  /\ ret = 32

(***************************************************************************)
(* C17: with no user-set sieve size, get_sieve_size(stop) returns          *)
(* floorPow2(clamp(L1 KiB, 8, 4096)) unless the L2 cache is present,       *)
(* private and larger (in KiB) than the L1; then it returns                *)
(* A = floorPow2(clamp(L2 KiB / clamp(threads sharing L2, 1, 4), 32,       *)
(* 4096)) when the big-prime lists fit into the cache for that stop and    *)
(* size A, and otherwise B = floorPow2(clamp(L2 KiB, 32, 4096)), B >= A.   *)
(***************************************************************************)
ReportedL1KiB == U64Div(cpuInfo.cacheSizes_[1], 1024)
ReportedL2KiB == U64Div(cpuInfo.cacheSizes_[2], 1024)

L2Preferred == L2Usable /\ U64Lt(ReportedL1KiB, ReportedL2KiB)

SizeA ==
  LargestPow2AtMost(
    Clamped(U64Div(ReportedL2KiB, Clamped(cpuInfo.cacheSharing_[2], 1, 4)), 32, 4096))

SizeB == LargestPow2AtMost(Clamped(ReportedL2KiB, 32, 4096))

\* get_sieve_size is l1 unless the L2 is preferred, and then A or B as the lists fit
SieveSizeByCache(l1) ==
  sieve_size = 0 =>
    /\ \A stop \in StopArgs, fits \in BOOLEAN :
         get_sieve_size(stop, fits) =
           IF L2Preferred THEN (IF fits THEN SizeA ELSE SizeB) ELSE l1
    /\ L2Preferred => SizeB >= SizeA
    /\ call.op = "get_sieve_size" =>
         ret \in (IF L2Preferred THEN {SizeA, SizeB} ELSE {l1})

\* the claim as stated: the L1 size as reported, valid or not
C17_Original ==
  SieveSizeByCache(LargestPow2AtMost(Clamped(ReportedL1KiB, 8, 4096)))

\* C17 (amended): the L1 size in KiB is taken as 32 when the reported L1 size
\* is not in [4 KiB, 1 GiB]
C17_SieveSizeByCache == SieveSizeByCache(FromL1)

\* a 32 KiB L1 and a private 8 MiB L2 shared by the 2 threads of a core:
\* get_sieve_size has returned A = 4096
C17_Witness ==
  /\ call.op = "get_sieve_size"
  /\ sieve_size = 0
  /\ cpuInfo.cacheSizes_[1] = U64(32 * 1024)
  /\ cpuInfo.cacheSizes_[2] = U64(8 * 2^20)
  /\ cpuInfo.cacheSharing_[2] = U64(2)
  /\ cpuInfo.threadsPerCore_ = U64(2)
  /\ ret = 4096

(***************************************************************************)
(* primesieve::iterator and the program of examples/primesieve_iterator:   *)
(* main() sums the primes that next_prime() returns below a limit.  The     *)
(* iterator keeps a buffer of primes, ascending, the index of the prime it  *)
(* returned last, and the bounds and the size of the window it sieved last. *)
(***************************************************************************)
\* the limit of the loop of main (10000000000ull in the example)
MaxPrime == 60
\* the cap of the window size is CapFactor * sqrt(position), CapFactor in
\* 1..MaxCapFactor
MaxCapFactor == 4

\* the integer square root
RECURSIVE isqrt(_)
isqrt(n) ==
  IF n < 2 THEN n
  ELSE LET r == 2 * isqrt(n \div 4)
       IN  IF (r + 1) * (r + 1) <= n THEN r + 1 ELSE r

\* a default-constructed iterator: nothing buffered, position 0
iterator(capFactor) ==
  [primes_ |-> <<>>, i_ |-> 0, low_ |-> 0, high_ |-> 0, dist_ |-> 1,
   capFactor_ |-> capFactor]

\* the size of the next window: 4 times the last one, at most the cap
getNextDist(it, position) ==
  MaxOf(1, MinOf(it.dist_ * 4, it.capFactor_ * isqrt(position)))

\* the start of the next window: the last prime + 1, or the number after the
\* last window when it held no prime
nextWindowStart_AtLastPrime(it) ==
  IF Len(it.primes_) > 0 THEN it.primes_[Len(it.primes_)] ELSE it.high_ + 1

nextWindowStart(it) ==
  IF Len(it.primes_) > 0 THEN it.primes_[Len(it.primes_)] + 1 ELSE it.high_ + 1

\* the buffer is exhausted: windows are sieved until one holds a prime
RECURSIVE generate_next_primes(_)
generate_next_primes(it) ==
  LET start == nextWindowStart(it)
      dist == getNextDist(it, start)
      stop == start + dist
      next == [it EXCEPT !.primes_ = Ascending({n \in start..stop : IsPrime(n)}),
                         !.i_ = 1, !.low_ = start, !.high_ = stop, !.dist_ = dist]
  IN  IF Len(next.primes_) = 0 THEN generate_next_primes(next) ELSE next

\* next_prime(): the iterator after the call; the prime is prime() of it
next_prime(it) ==
  IF it.i_ >= Len(it.primes_) THEN generate_next_primes(it)
  ELSE [it EXCEPT !.i_ = @ + 1]

\* prime(): the prime at the index
prime(it) == it.primes_[it.i_]

\* main() of the example: primesieve::iterator pi; uint64_t sum = 0.
\* returned is the history of the values of next_prime().
InitIterator ==
  /\ sieve_size = 0
  /\ num_threads = 0
  /\ cpuInfo = CpuInfoTypical
  /\ ps = NewPrimeSieve
  /\ workers = <<>>
  /\ pc = "running"
  /\ call = [op |-> "main", args |-> <<>>]
  /\ ret = 0
  /\ err = "none"
  /\ \E capFactor \in 1..MaxCapFactor :
       frame = [fn |-> "main", at |-> "while", pi |-> iterator(capFactor),
                sum |-> 0, returned |-> <<>>]

\* while (pi.next_prime() < limit)
main_while ==
  /\ frame.fn = "main"
  /\ frame.at = "while"
  /\ \E it \in {next_prime(frame.pi)} :
       /\ frame' = [frame EXCEPT !.pi = it,
                                 !.returned = Append(@, prime(it)),
                                 !.at = IF prime(it) < MaxPrime THEN "body" ELSE "cout"]
       /\ call' = [op |-> "next_prime", args |-> <<>>]
       /\ ret' = prime(it)
  /\ UNCHANGED <<sieve_size, num_threads, cpuInfo, ps, workers, pc, err>>

\* sum += pi.prime()
main_body ==
  /\ frame.fn = "main"
  /\ frame.at = "body"
  /\ frame' = [frame EXCEPT !.sum = @ + prime(frame.pi), !.at = "while"]
  /\ call' = [op |-> "prime", args |-> <<>>]
  /\ ret' = prime(frame.pi)
  /\ UNCHANGED <<sieve_size, num_threads, cpuInfo, ps, workers, pc, err>>

\* std::cout << sum; return 0
main_return ==
  /\ frame.fn = "main"
  /\ frame.at = "cout"
  /\ frame' = [frame EXCEPT !.at = "return"]
  /\ pc' = "returned"
  /\ call' = [op |-> "main", args |-> <<>>]
  /\ ret' = 0
  /\ UNCHANGED <<sieve_size, num_threads, cpuInfo, ps, workers, err>>

NextIterator ==
  \/ main_while
  \/ main_body
  \/ main_return

SpecIterator == InitIterator /\ [][NextIterator]_vars

\* the sum of a set of numbers
RECURSIVE SumOf(_)
SumOf(S) == IF S = {} THEN 0 ELSE LET x == CHOOSE y \in S : TRUE IN x + SumOf(S \ {x})

\* the k-th prime is the prime with k primes at or below it
IsNthPrime(p, k) == IsPrime(p) /\ Cardinality(PrimesIn(0, p)) = k

\* C16: the k-th call of next_prime() of a default-constructed iterator
\* returns the k-th prime (2, 3, 5, 7, ...: ascending, none skipped, none
\* repeated, whatever windows were sieved in between), and prime() returns
\* the value of the most recent next_prime()
C16_NextPrimeAscendingAll ==
  frame.fn = "main" =>
    /\ \A k \in 1..Len(frame.returned) : IsNthPrime(frame.returned[k], k)
    /\ Len(frame.returned) > 0 =>
         prime(frame.pi) = frame.returned[Len(frame.returned)]
    /\ call.op = "prime" => ret = frame.returned[Len(frame.returned)]
    /\ frame.at = "return" => frame.sum = 0 + SumOf(PrimesIn(0, MaxPrime - 1))

\* next_prime() has returned 23 and then 29 from a window that starts at 29:
\* the window sieved in between, [24, 28], held no prime
C16_Witness ==
  /\ frame.fn = "main"
  /\ Len(frame.returned) = 10
  /\ frame.returned[9] = 23
  /\ frame.returned[10] = 29
  /\ frame.pi.low_ = 29
  /\ frame.pi.i_ = 1

(***************************************************************************)
(* api.cpp: print_primes (type 0) .. print_sextuplets (type 5), each on    *)
(* one PrimeSieve object: no thread is started, whatever get_num_threads() *)
(* would return.                                                           *)
(***************************************************************************)
\* a print function that always passes PRINT_PRIMES
print_AlwaysPrimes(type, start, stop, sieveSize) ==
  Then(prepare(start, stop, PRINT_PRIMES, sieveSize), LAMBDA o : Ok(sieve(o)))

\* PrimeSieve ps; ps.setSieveSize(sieveSize); ps.sieve(start, stop, PRINT_*)
print(type, start, stop, sieveSize) ==
  Then(prepare(start, stop, PRINT_PRIMES * 2^type, sieveSize), LAMBDA o : Ok(sieve(o)))

PrintCall(type, start, stop) ==
  /\ pc = "idle"
  /\ \E sieveSize \in {get_sieve_size(U64(stop), fits) : fits \in BOOLEAN} :
     \E r \in {print(type, U64(start), U64(stop), sieveSize)} :
       /\ ps' = r.obj
       /\ err' = r.err
  /\ call' = [op |-> "print", args |-> <<type, start, stop>>]
  /\ ret' = 0
  /\ pc' = "returned"
  /\ UNCHANGED <<sieve_size, num_threads, cpuInfo, workers, frame>>

NextPrint ==
  \/ \E n \in 1..MaxHwThreads : set_num_threads(n)
  \/ pc = "idle" /\ \E type \in 0..5, start \in 0..MaxN, stop \in 0..MaxN :
                      PrintCall(type, start, stop)
  \/ Return

SpecPrint == Init /\ [][NextPrint]_vars

\* the items of a set, each the ascending sequence of its members, in the
\* order of their first members, as lines
LinesOf(items) ==
  LET hits == InScanOrder({Ascending(item) : item \in items})
  IN  [i \in 1..Len(hits) |-> HitLine(hits[i])]

\* the pre-listed items of type t whose members all lie in [start, stop]
PreListedIn(t, start, stop) ==
  {item \in ItemsIn(t, start, stop) : \E q \in item : q <= 5}

\* C18: print_primes .. print_sextuplets run on a single worker whatever
\* set_num_threads has configured: no child sieve is ever created, and the
\* output is the pre-listed items in range, ascending, followed by the items
\* of [max(start, 7), stop], ascending; the whole output is strictly
\* ascending
C18_PrintSingleWorkerAscending ==
  /\ workers = <<>>
  /\ pc # "running"
  /\ (call.op = "print" /\ err = "none") =>
       LET type == call.args[1]
           start == call.args[2]
           stop == call.args[3]
           all == ItemsIn(type, start, stop)
           pre == PreListedIn(type, start, stop)
       IN  /\ ps.stdout = LinesOf(pre) \o LinesOf(ItemsIn(type, MaxOf(start, 7), stop))
           /\ ps.stdout = LinesOf(pre \cup ItemsIn(type, MaxOf(start, 7), stop))
           /\ \A i, j \in DOMAIN ps.stdout : i < j => ps.stdout[i] # ps.stdout[j]
  /\ (call.op = "print" /\ err # "none") => call.args[2] > call.args[3]

\* print_twins(0, 19) with two threads configured has printed the twins of
\* the pre-list and then those of the finder
C18_Witness ==
  /\ call.op = "print"
  /\ call.args = <<1, 0, 19>>
  /\ num_threads = 2
  /\ get_num_threads = 2
  /\ ps.stdout = <<"(3, 5)", "(5, 7)", "(11, 13)", "(17, 19)">>

(***************************************************************************)
(* PrimeSieve: the getters of the counts, called on a new object or after  *)
(* sieve().                                                                *)
(***************************************************************************)
getPrimeCount(o) == o.counts_[0]
getTwinCount(o) == o.counts_[1]
getTripletCount(o) == o.counts_[2]
getQuadrupletCount(o) == o.counts_[3]
getQuintupletCount(o) == o.counts_[4]
getSextupletCount(o) == o.counts_[5]
getSeptupletCount(o) == o.counts_[6]

\* counts_[i]; a read outside the vector is undefined, shown as -1
ReadCount(o, i) == IF i \in DOMAIN o.counts_ THEN o.counts_[i] ELSE 0 - 1

\* a getCounts that accepts type = COUNTS_SIZE, as its comment "type <= 7" says
getCounts_UpTo7(o, type) ==
  IF type > COUNTS_SIZE
  THEN [val |-> 0, err |-> "out_of_range"]
  ELSE [val |-> ReadCount(o, type), err |-> "none"]

\* getCounts(type), type a uint32_t: the value returned and the exception
getCounts(o, type) ==
  IF type >= COUNTS_SIZE
  THEN [val |-> 0, err |-> "out_of_range"]
  ELSE [val |-> ReadCount(o, type), err |-> "none"]

\* the types passed to getCounts
CountTypes == 0..(COUNTS_SIZE + 2) \cup {IntMax}

GetCounts(type) ==
  /\ call.op \in {"PrimeSieve", "sieve"}
  /\ err = "none"
  /\ \E r \in {getCounts(ps, type)} :
       /\ ret' = r.val
       /\ err' = r.err
  /\ call' = [op |-> "getCounts", args |-> <<type>>]
  /\ UNCHANGED <<sieve_size, num_threads, cpuInfo, ps, workers, pc, frame>>

\* getPrimeCount() (type 0) .. getSeptupletCount() (type 6)
GetNamedCount(type) ==
  /\ call.op \in {"PrimeSieve", "sieve"}
  /\ err = "none"
  /\ ret' = CASE type = 0 -> getPrimeCount(ps)
              [] type = 1 -> getTwinCount(ps)
              [] type = 2 -> getTripletCount(ps)
              [] type = 3 -> getQuadrupletCount(ps)
              [] type = 4 -> getQuintupletCount(ps)
              [] type = 5 -> getSextupletCount(ps)
              [] type = 6 -> getSeptupletCount(ps)
  /\ call' = [op |-> "getNamedCount", args |-> <<type>>]
  /\ UNCHANGED <<sieve_size, num_threads, cpuInfo, ps, workers, pc, err, frame>>

CountsFlags == {COUNT_SEPTUPLETS * 2 - 1, COUNT_PRIMES, COUNT_TWINS + COUNT_QUADRUPLETS}

NextCounts ==
  \/ Construct
  \/ call.op = "PrimeSieve" /\ \E x \in {0, 5, 7} : SetStartNumber(U64(x))
  \/ call.op = "setStartNumber" /\ \E x \in {5, MaxStop, MaxN} : SetStopNumber(U64(x))
  \/ call.op = "setStopNumber" /\ \E f \in CountsFlags : SetFlags(f)
  \/ Sieve
  \/ \E type \in CountTypes : GetCounts(type)
  \/ \E type \in 0..(COUNTS_SIZE - 1) : GetNamedCount(type)

SpecCounts == InitObj /\ [][NextCounts]_vars

MaxT == 50

\* U32SQRT(x): the integer part of the square root
U32SQRT(x) == isqrt(x)

\* settings::PREELIMINATE_RESETSIEVE, returned by resetSieve.getEliminateUpTo()
EliminateUpToChoices == {13, 19}

\* the stop numbers: the fourth powers up to MaxT^4 and their predecessors
TrialStops == {t * t * t * t - d : t \in 2..MaxT, d \in {0, 1}}

\* primeNumberGenerator.getStopNumber(): the generator sieves up to the
\* square root of the stop number of the finder
generatorStopNumber(o) == U32SQRT(Val(o.stopNumber_))

\* what a read of primes16Bit[i] may give (i counts from 0): the element, or
\* any value when i is outside the vector
OutsideReads == {1, 65535}
ReadPrimes16Bit(f) ==
  IF f.i + 1 \in DOMAIN f.primes16Bit THEN {f.primes16Bit[f.i + 1]} ELSE OutsideReads

\* a list that keeps the primes up to keep only
keepPrime_UpToKeep(v, n, keep) == n <= keep

\* if (primes16Bit[i] <= keep): n is stored in the list
keepPrime(v, n, keep) == v <= keep

InitTrial ==
  /\ sieve_size = 0
  /\ num_threads = 0
  /\ cpuInfo = CpuInfoTypical
  /\ \E stopNumber \in TrialStops :
       ps = resetOwn([NewPrimeSieve EXCEPT !.stopNumber_ = U64(stopNumber)])
  /\ workers = <<>>
  /\ pc = "running"
  /\ call = [op |-> "sieve", args |-> <<>>]
  /\ ret = 0
  /\ err = "none"
  /\ \E eliminateUpTo \in EliminateUpToChoices :
       frame = [fn |-> "sieve", at |-> "generator", eliminateUpTo |-> eliminateUpTo,
                primes16Bit |-> <<>>, stop |-> 0, keep |-> 0, n |-> 0, s |-> 0,
                i |-> 0, sieved |-> <<>>, undefined |-> FALSE, log |-> <<"finder">>]

\* a loop that starts without the push_back(3)
trial_generator_EmptyList ==
  /\ frame.fn = "sieve"
  /\ frame.at = "generator"
  /\ frame' = IF U32SQRT(Val(ps.stopNumber_)) > frame.eliminateUpTo
              THEN [frame EXCEPT !.primes16Bit = <<>>,
                                 !.stop = U32SQRT(generatorStopNumber(ps)),
                                 !.keep = U32SQRT(U32SQRT(generatorStopNumber(ps))),
                                 !.n = 5,
                                 !.log = Append(@, "generator"),
                                 !.at = "for"]
              ELSE [frame EXCEPT !.at = "finder_finish"]
  /\ UNCHANGED <<sieve_size, num_threads, cpuInfo, ps, workers, pc, call, ret, err>>

\* if (U32SQRT(stopNumber_) > resetSieve.getEliminateUpTo()): the generator
\* is made, primes16Bit = [3], stop and keep are set and the loop starts at 5
trial_generator ==
  /\ frame.fn = "sieve"
  /\ frame.at = "generator"
  /\ frame' = IF U32SQRT(Val(ps.stopNumber_)) > frame.eliminateUpTo
              THEN [frame EXCEPT !.primes16Bit = <<3>>,
                                 !.stop = U32SQRT(generatorStopNumber(ps)),
                                 !.keep = U32SQRT(U32SQRT(generatorStopNumber(ps))),
                                 !.n = 5,
                                 !.log = Append(@, "generator"),
                                 !.at = "for"]
              ELSE [frame EXCEPT !.at = "finder_finish"]
  /\ UNCHANGED <<sieve_size, num_threads, cpuInfo, ps, workers, pc, call, ret, err>>

\* a loop that is left without primeNumberGenerator.finish()
trial_for_NoFinish ==
  /\ frame.fn = "sieve"
  /\ frame.at = "for"
  /\ frame' = IF frame.n <= frame.stop
              THEN [frame EXCEPT !.s = U32SQRT(frame.n), !.i = 0, !.at = "divide"]
              ELSE [frame EXCEPT !.at = "finder_finish"]
  /\ UNCHANGED <<sieve_size, num_threads, cpuInfo, ps, workers, pc, call, ret, err>>

\* for (n = 5; n <= stop; n += 2): s = U32SQRT(n), i = 0; after the loop
\* primeNumberGenerator.finish()
trial_for ==
  /\ frame.fn = "sieve"
  /\ frame.at = "for"
  /\ frame' = IF frame.n <= frame.stop
              THEN [frame EXCEPT !.s = U32SQRT(frame.n), !.i = 0, !.at = "divide"]
              ELSE [frame EXCEPT !.log = Append(@, "generator.finish"),
                                 !.at = "finder_finish"]
  /\ UNCHANGED <<sieve_size, num_threads, cpuInfo, ps, workers, pc, call, ret, err>>

\* for (; primes16Bit[i] <= s && (n % primes16Bit[i]) != 0; i++)
trial_divide ==
  /\ frame.fn = "sieve"
  /\ frame.at = "divide"
  /\ \E v \in ReadPrimes16Bit(frame) :
       frame' = [frame EXCEPT
                   !.undefined = @ \/ (frame.i + 1 \notin DOMAIN frame.primes16Bit),
                   !.i = IF v <= frame.s /\ frame.n % v # 0 THEN @ + 1 ELSE @,
                   !.at = IF v <= frame.s /\ frame.n % v # 0 THEN "divide" ELSE "if"]
  /\ UNCHANGED <<sieve_size, num_threads, cpuInfo, ps, workers, pc, call, ret, err>>

\* if (primes16Bit[i] > s) { if (primes16Bit[i] <= keep) push_back(n);
\* if (n > eliminateUpTo) primeNumberGenerator.sieve(n); }  n += 2
trial_if ==
  /\ frame.fn = "sieve"
  /\ frame.at = "if"
  /\ \E v \in ReadPrimes16Bit(frame) :
       frame' = [frame EXCEPT
                   !.undefined = @ \/ (frame.i + 1 \notin DOMAIN frame.primes16Bit),
                   !.primes16Bit = IF v > frame.s /\ keepPrime(v, frame.n, frame.keep)
                                   THEN Append(@, frame.n) ELSE @,
                   !.sieved = IF v > frame.s /\ frame.n > frame.eliminateUpTo
                              THEN Append(@, frame.n) ELSE @,
                   !.log = IF v > frame.s /\ frame.n > frame.eliminateUpTo
                           THEN Append(@, "generator.sieve") ELSE @,
                   !.n = @ + 2,
                   !.at = "for"]
  /\ UNCHANGED <<sieve_size, num_threads, cpuInfo, ps, workers, pc, call, ret, err>>

\* primeNumberFinder.finish(), the finder's counts are added to counts_,
\* and the return of sieve()
trial_finish ==
  /\ frame.fn = "sieve"
  /\ frame.at = "finder_finish"
  /\ frame' = [frame EXCEPT !.log = @ \o <<"finder.finish", "counts">>,
                            !.at = "return"]
  /\ pc' = "returned"
  /\ UNCHANGED <<sieve_size, num_threads, cpuInfo, ps, workers, call, ret, err>>

NextTrial ==
  \/ trial_generator
  \/ trial_for
  \/ trial_divide
  \/ trial_if
  \/ trial_finish

SpecTrial == InitTrial /\ [][NextTrial]_vars

\* the elements of a sequence
Range(seq) == {seq[k] : k \in DOMAIN seq}

StrictlyAscending(seq) == \A j, k \in DOMAIN seq : j < k => seq[j] < seq[k]

\* the odd numbers the loop has finished with: 5, 7, ..., below n
TrialDone == IF frame.at \in {"generator"} THEN 0 ELSE frame.n - 1

\* C20: with L the pre-sieve limit and T = floor(sqrt(generator stop)), the
\* loop calls primeNumberGenerator.sieve(n) once for every prime n with
\* L < n <= T, ascending, and for no other n; primes16Bit holds odd primes
\* only, ascending, without duplicates; and when an odd n <= T is tested the
\* list holds every prime up to sqrt(n) and a larger one that ends the
\* division, so that no read leaves the vector
C20_TrialDivision ==
  frame.fn = "sieve" =>
    LET L == frame.eliminateUpTo
        T == U32SQRT(generatorStopNumber(ps))
    IN  /\ frame.sieved = Ascending(PrimesIn(L + 1, MinOf(T, TrialDone)))
        /\ frame.at \in {"finder_finish", "return"} =>
             frame.sieved = Ascending(PrimesIn(L + 1, T))
        /\ \A k \in DOMAIN frame.primes16Bit :
             IsPrime(frame.primes16Bit[k]) /\ frame.primes16Bit[k] % 2 = 1
        /\ StrictlyAscending(frame.primes16Bit)
        /\ StrictlyAscending(frame.sieved)
        /\ frame.at \in {"divide", "if"} =>
             /\ frame.n <= T
             /\ PrimesIn(3, frame.s) \subseteq Range(frame.primes16Bit)
             /\ \E k \in DOMAIN frame.primes16Bit : frame.primes16Bit[k] > frame.s
             /\ frame.i + 1 \in DOMAIN frame.primes16Bit
        /\ ~frame.undefined

\* the loop has ended for stop number 50^4 and limit 13: the primes 17 .. 47
\* went to the generator and the list holds the odd primes below 49
C20_Witness ==
  /\ frame.fn = "sieve"
  /\ frame.at = "return"
  /\ frame.eliminateUpTo = 13
  /\ frame.stop = 50
  /\ frame.sieved = <<17, 19, 23, 29, 31, 37, 41, 43, 47>>
  /\ frame.primes16Bit = <<3, 5, 7, 11, 13, 17, 19, 23, 29, 31, 37, 41, 43, 47>>

(***************************************************************************)
(* get_sieve_size on any CPU while no sieve size has been set              *)
(***************************************************************************)
NextCache ==
  \/ pc = "idle" /\ \E stop \in StopArgs : GetSieveSize(stop)
  \/ Return

SpecCache == InitSettings /\ [][NextCache]_vars

(***************************************************************************)
(* api.cpp as a whole: the two settings and every function that reads      *)
(* them, called in any order.                                              *)
(***************************************************************************)
\* get_max_stop(): std::numeric_limits<uint64_t>::max()
get_max_stop == UINT64_MAX

GetMaxStop ==
  /\ pc = "idle"
  /\ ret' = get_max_stop
  /\ call' = [op |-> "get_max_stop", args |-> <<>>]
  /\ err' = "none"
  /\ pc' = "returned"
  /\ UNCHANGED <<frame, sieve_size, num_threads, cpuInfo, ps, workers>>

\* ParallelSieve::nthPrime(n, start), n > 0: the n-th prime above start
RECURSIVE nthPrime(_, _)
nthPrime(n, start) ==
  LET next == CHOOSE p \in (start + 1)..(2 * start + 2) :
                IsPrime(p) /\ \A q \in (start + 1)..(p - 1) : ~IsPrime(q)
  IN  IF n = 1 THEN next ELSE nthPrime(n - 1, next)

\* nth_prime(n, start): stop = start + n, get_sieve_size(stop),
\* setSieveSize, setNumThreads(get_num_threads()), nthPrime(n, start)
NthPrime(n, start) ==
  /\ pc = "idle"
  /\ \E sieveSize \in {get_sieve_size(U64(start + n), fits) : fits \in BOOLEAN} :
     \E r \in {setSieveSize(NewPrimeSieve, sieveSize)} :
       /\ ps' = r.obj
       /\ err' = r.err
       /\ ret' = IF r.err = "none" /\ get_num_threads >= 1 THEN nthPrime(n, start) ELSE 0
  /\ call' = [op |-> "nth_prime", args |-> <<n, start>>]
  /\ pc' = "returned"
  /\ UNCHANGED <<frame, sieve_size, num_threads, cpuInfo, workers>>

\* the arguments of the calls of the api
ApiNumbers == {0, 7, MaxStop}
ApiSieveSizes == {0, 8, 100, IntMax}

NextApi ==
  \/ pc = "idle" /\ \E k \in ApiSieveSizes : set_sieve_size(k)
  \/ pc = "idle" /\ \E n \in 0..MaxHwThreads : set_num_threads(n)
  \/ pc = "idle" /\ \E stop \in {U64(0), StopLimit} : GetSieveSize(stop)
  \/ GetNumThreads
  \/ GetMaxStop
  \/ pc = "idle" /\ \E type \in {0, 1, 5}, start \in ApiNumbers, stop \in ApiNumbers :
                      Count(type, start, stop)
  \/ \E i \in 1..MaxHwThreads : WorkerSieve(i)
  \/ Join
  \/ pc = "idle" /\ \E type \in {0, 1, 5}, start \in ApiNumbers, stop \in ApiNumbers :
                      PrintCall(type, start, stop)
  \/ pc = "idle" /\ \E n \in {1, 2}, start \in ApiNumbers : NthPrime(n, start)
  \/ Return

SpecApi == Init /\ [][NextApi]_vars

\* C24: get_max_stop() returns the largest stop value the sieve accepts:
\* it is below 2^64 - 10 * (2^32 - 1), the range check of setStopNumber
\* accepts it and rejects the next value
C24_MaxStopAccepted ==
  call.op = "get_max_stop" =>
    /\ U64Lt(ret, StopLimit)
    /\ setStopNumber(NewPrimeSieve, ret).err = "none"

\* C27: only set_sieve_size changes the sieve-size setting and only
\* set_num_threads changes the thread-count setting: a step of
\* set_sieve_size leaves num_threads alone, a step of set_num_threads leaves
\* sieve_size alone, and a step of anything else (get_sieve_size,
\* get_num_threads, get_max_stop, count_*, the workers, print_*, nth_prime,
\* the return) leaves both alone
C27_SettingsFrame ==
  [][/\ sieve_size' # sieve_size => (pc = "idle" /\ call'.op = "set_sieve_size")
     /\ num_threads' # num_threads => (pc = "idle" /\ call'.op = "set_num_threads")
     /\ (pc = "idle" /\ call'.op = "set_sieve_size") => num_threads' = num_threads
     /\ (pc = "idle" /\ call'.op = "set_num_threads") => sieve_size' = sieve_size]_vars

\* both settings were set and count_primes then runs on two workers with
\* the settings as they were set
C27_Witness ==
  /\ pc = "running"
  /\ call.op = "count"
  /\ Len(workers) = 2
  /\ sieve_size = 64
  /\ num_threads = 2

(***************************************************************************)
(* Two threads on the global sieve_size, a plain int: one executes         *)
(* set_sieve_size(k), statement by statement, the other get_sieve_size().  *)
(* frame holds the position of each thread and the value sieve_size had    *)
(* before the call.                                                        *)
(***************************************************************************)
InitRace ==
  /\ sieve_size \in {0, 8, 64}
  /\ num_threads = 0
  /\ cpuInfo = CpuInfoTypical
  /\ ps = NewPrimeSieve
  /\ workers = <<>>
  /\ pc = "running"
  /\ \E kilobytes \in SieveSizeArgs :
       call = [op |-> "set_sieve_size", args |-> <<kilobytes>>]
  /\ ret = 0
  /\ err = "none"
  /\ frame = [fn |-> "threads", writer |-> "clamp", reader |-> "call",
              before |-> sieve_size, test |-> FALSE]

\* writer: sieve_size = inBetween(8, kilobytes, 4096)
race_clamp ==
  /\ frame.fn = "threads"
  /\ frame.writer = "clamp"
  /\ sieve_size' = inBetween(8, call.args[1], 4096)
  /\ frame' = [frame EXCEPT !.writer = "floorPow2"]
  /\ UNCHANGED <<num_threads, cpuInfo, ps, workers, pc, call, ret, err>>

\* writer: sieve_size = floorPow2(sieve_size)
race_floorPow2 ==
  /\ frame.fn = "threads"
  /\ frame.writer = "floorPow2"
  /\ sieve_size' = floorPow2(sieve_size)
  /\ frame' = [frame EXCEPT !.writer = "return"]
  /\ UNCHANGED <<num_threads, cpuInfo, ps, workers, pc, call, ret, err>>

\* reader: if (sieve_size)
race_test ==
  /\ frame.fn = "threads"
  /\ frame.reader = "call"
  /\ frame' = [frame EXCEPT !.test = sieve_size # 0, !.reader = "tested"]
  /\ UNCHANGED <<sieve_size, num_threads, cpuInfo, ps, workers, pc, call, ret, err>>

\* reader: return sieve_size, or the size made from the caches
race_return ==
  /\ frame.fn = "threads"
  /\ frame.reader = "tested"
  /\ IF frame.test
     THEN ret' = sieve_size
     ELSE \E fits \in BOOLEAN : ret' = cacheSieveSize(U64(0), fits)
  /\ frame' = [frame EXCEPT !.reader = "return"]
  /\ UNCHANGED <<sieve_size, num_threads, cpuInfo, ps, workers, pc, call, err>>

NextRace ==
  \/ race_clamp
  \/ race_floorPow2
  \/ race_test
  \/ race_return

SpecRace == InitRace /\ [][NextRace]_vars

\* C26: a get_sieve_size() that runs while another thread executes
\* set_sieve_size(k) returns the size in force before the call or
\* floorPow2(clamp(k, 8, 4096)), and never a value that is not a power of two
C26_ReaderSeesOldOrNew ==
  (frame.fn = "threads" /\ frame.reader = "return") =>
    /\ isPowerOf2(ret)
    /\ \/ ret = LargestPow2AtMost(MinOf(MaxOf(call.args[1], 8), 4096))
       \/ frame.before # 0 /\ ret = frame.before
       \/ frame.before = 0 /\ ret \in (IF L2Preferred THEN {SizeA, SizeB} ELSE {FromL1})

\* C30: at every read of primes16Bit[i], in the condition of the inner loop
\* and in the tests after it, i is below the length of the list, and the
\* list holds a prime above floor(sqrt(n)) whenever an odd n is tested
C30_IndexInsideList ==
  (frame.fn = "sieve" /\ frame.at \in {"divide", "if"}) =>
    /\ frame.i < Len(frame.primes16Bit)
    /\ frame.s = isqrt(frame.n)
    /\ frame.n % 2 = 1
    /\ frame.primes16Bit[Len(frame.primes16Bit)] > frame.s
    /\ IsPrime(frame.primes16Bit[Len(frame.primes16Bit)])
    /\ \A k \in 1..frame.i : frame.primes16Bit[k] <= frame.s
    /\ ~frame.undefined

\* n = 47 of the loop up to 50 is at its tests after the inner loop: i = 2
\* reads the 7, the first prime above floor(sqrt(47)) = 6
C30_Witness ==
  /\ frame.fn = "sieve"
  /\ frame.at = "if"
  /\ frame.stop = 50
  /\ frame.n = 47
  /\ frame.s = 6
  /\ frame.i = 2
  /\ frame.primes16Bit[frame.i + 1] = 7

(***************************************************************************)
(* One PrimeSieve object used again and again: any setter, sieve(),        *)
(* getPrimeCount(start, stop) and generatePrimes(start, stop, callback),   *)
(* in any order.  What earlier calls printed or called back is not kept.   *)
(***************************************************************************)
ReuseNumbers == {U64(0), U64(MaxStop), UINT64_MAX}
ReuseSieveSizes == {3, 32}
ReuseFlags == {COUNT_PRIMES + COUNT_TWINS}

\* the intervals whose sieving is computed, and every request that fails
Feasible(start, stop, flags) ==
  \/ U64Le(StopLimit, start)
  \/ U64Le(StopLimit, stop)
  \/ U64Lt(stop, start)
  \/ Computable(start, stop, flags)

\* the object before a call: the output of earlier calls is dropped
Quiet(o) == [o EXCEPT !.stdout = <<>>, !.callbackArgs = <<>>]

ReuseCall(op, args, r) ==
  /\ ps' = r.obj
  /\ err' = r.err
  /\ call' = [op |-> op, args |-> args]
  /\ ret' = IF op = "getPrimeCount" /\ r.err = "none" THEN r.obj.counts_[0] ELSE 0
  /\ UNCHANGED <<sieve_size, num_threads, cpuInfo, workers, pc, frame>>

NextReuse ==
  \/ \E x \in ReuseNumbers : ReuseCall("setStartNumber", <<x>>, setStartNumber(Quiet(ps), x))
  \/ \E x \in ReuseNumbers : ReuseCall("setStopNumber", <<x>>, setStopNumber(Quiet(ps), x))
  \/ \E k \in ReuseSieveSizes : ReuseCall("setSieveSize", <<k>>, setSieveSize(Quiet(ps), k))
  \/ \E f \in ReuseFlags : ReuseCall("setFlags", <<f>>, Ok(setFlags(Quiet(ps), f)))
  \/ /\ Feasible(ps.startNumber_, ps.stopNumber_, ps.flags_)
     /\ ReuseCall("sieve", <<>>, sieveChecked(Quiet(ps)))
  \/ \E a \in ReuseNumbers, b \in ReuseNumbers :
       /\ Feasible(a, b, COUNT_PRIMES)
       /\ ReuseCall("getPrimeCount", <<a, b>>, getPrimeCountIn(Quiet(ps), a, b))
  \/ \E a \in ReuseNumbers, b \in ReuseNumbers, cb \in BOOLEAN :
       /\ Feasible(a, b, CALLBACK_PRIMES)
       /\ ReuseCall("generatePrimes", <<a, b, cb>>, generatePrimes(Quiet(ps), a, b, cb))

SpecReuse == InitObj /\ [][NextReuse]_vars

\* the fields the claim names are the same in two objects
SameObject(o, q) ==
  /\ o.startNumber_ = q.startNumber_
  /\ o.stopNumber_ = q.stopNumber_
  /\ o.sieveSize_ = q.sieveSize_
  /\ o.flags_ = q.flags_
  /\ o.callback = q.callback
  /\ o.counts_ = q.counts_

\* the claim as stated: every failing operation leaves the object as it was
C28_Original ==
  [][err' # "none" => SameObject(ps, ps')]_vars

\* what a failing getPrimeCount(a, b) (flags COUNT_PRIMES, callback kept) or
\* generatePrimes(a, b, callback) (flags CALLBACK_PRIMES, the callback
\* stored) has assigned by the time it fails
Assigned(o, a, b, flags, callback) ==
  IF U64Le(StopLimit, a) THEN o
  ELSE IF U64Le(StopLimit, b) THEN [o EXCEPT !.startNumber_ = a]
  ELSE [o EXCEPT !.startNumber_ = a, !.stopNumber_ = b, !.flags_ = flags,
                 !.callback = callback]

\* C28 (amended): a failing setStartNumber, setStopNumber, setSieveSize,
\* sieve() with stop < start, or generatePrimes with a NULL callback leaves
\* start, stop, sieve size, flags, callback and counts as they were; a
\* failing getPrimeCount(a, b) or generatePrimes(a, b, callback) leaves the
\* sieve size and the counts as they were and keeps what its setters
\* assigned before the failure: the start a when b is out of range; a, b,
\* the flags and the callback when b < a
C28_FailureKeepsObject ==
  [][err' # "none" =>
       SameObject(ps',
         CASE call'.op = "getPrimeCount" ->
                Assigned(ps, call'.args[1], call'.args[2], COUNT_PRIMES, ps.callback)
           [] call'.op = "generatePrimes" /\ call'.args[3] ->
                Assigned(ps, call'.args[1], call'.args[2], CALLBACK_PRIMES, call'.args[3])
           [] OTHER -> ps)]_vars

\* getPrimeCount(MaxStop, 0) has failed on an object that had counted and
\* had start 0: the counts are kept, start and stop are those of the call
C28_Witness ==
  /\ call.op = "getPrimeCount"
  /\ call.args = <<U64(MaxStop), U64(0)>>
  /\ err = "invalid_argument"
  /\ ps.startNumber_ = U64(MaxStop)
  /\ ps.stopNumber_ = U64(0)
  /\ ps.counts_[0] = Cardinality(PrimesIn(0, MaxStop))
  /\ ps.counts_[0] > 0
  /\ ps.sieveSize_ = 32 * 1024

\* C29: whatever sessions came before on the same object,
\* getPrimeCount(a, b) returns what a new object returns, the number of
\* primes of [a, b], and when a sieve session returns the seven counters
\* hold that session's results only
C29_CountsOfThisSessionOnly ==
  (call.op \in {"getPrimeCount", "sieve"} /\ err = "none"
     /\ FitsInt(ps.stopNumber_) /\ Val(ps.stopNumber_) <= MaxN) =>
    /\ \A t \in 0..(COUNTS_SIZE - 1) :
         ps.counts_[t] = IF HasFlag(ps.flags_, COUNT_PRIMES * 2^t)
                         THEN Cardinality(ItemsIn(t, Val(ps.startNumber_),
                                                  Val(ps.stopNumber_)))
                         ELSE 0
    /\ call.op = "getPrimeCount" =>
         /\ ret = Cardinality(PrimesIn(Val(call.args[1]), Val(call.args[2])))
         /\ ret = getPrimeCountIn(NewPrimeSieve, call.args[1], call.args[2]).obj.counts_[0]

\* getPrimeCount(0, MaxStop) has returned the number of primes up to
\* MaxStop on an object whose sieve size came from an earlier call
C29_Witness ==
  /\ call.op = "getPrimeCount"
  /\ call.args = <<U64(0), U64(MaxStop)>>
  /\ err = "none"
  /\ ret = Cardinality(PrimesIn(0, MaxStop))
  /\ ret > 0
  /\ ps.sieveSize_ = 32 * 1024
  /\ ps.counts_[1] = 0

(***************************************************************************)
(* The status during one sieve() of an object of its own: reset(), the     *)
(* finder's reports of the integers of [max(start, 7), stop], each once,   *)
(* in pieces of any length, and the closing doStatus(10).                  *)
(***************************************************************************)
InitStatus ==
  /\ sieve_size = 0
  /\ num_threads = 0
  /\ cpuInfo = CpuInfoTypical
  /\ \E startNumber \in 0..MaxN, stopNumber \in 0..MaxN :
       /\ startNumber <= stopNumber
       /\ ps = [NewPrimeSieve EXCEPT !.startNumber_ = U64(startNumber),
                                     !.stopNumber_ = U64(stopNumber)]
  /\ workers = <<>>
  /\ pc = "running"
  /\ call = [op |-> "sieve", args |-> <<>>]
  /\ ret = 0
  /\ err = "none"
  /\ frame = [fn |-> "status", at |-> "reset", before |-> ps, left |-> 0]

\* reset(), the primes and tuplets below 7, and the finder is made when
\* stopNumber_ >= 7
status_reset ==
  /\ frame.fn = "status"
  /\ frame.at = "reset"
  /\ ps' = smallPrimes(reset(ps))
  /\ frame' = IF U64Le(U64(7), ps.stopNumber_)
              THEN [frame EXCEPT !.at = "finder",
                                 !.left = 1 + Val(ps.stopNumber_) - Val(finderStart(ps))]
              ELSE [frame EXCEPT !.at = "final"]
  /\ UNCHANGED <<sieve_size, num_threads, cpuInfo, workers, pc, call, ret, err>>

\* the finder has sieved a segment and reports its integers
status_segment ==
  /\ frame.fn = "status"
  /\ frame.at = "finder"
  /\ frame.left > 0
  /\ \E segment \in 1..frame.left :
       /\ ps' = doStatus(ps, U64(segment))
       /\ frame' = [frame EXCEPT !.left = @ - segment]
  /\ UNCHANGED <<sieve_size, num_threads, cpuInfo, workers, pc, call, ret, err>>

\* the finder is finished, its counts are added, and doStatus(10)
status_final ==
  /\ frame.fn = "status"
  /\ \/ frame.at = "final"
     \/ frame.at = "finder" /\ frame.left = 0
  /\ ps' = doStatus(sieveFinder(ps), U64(10))
  /\ frame' = [frame EXCEPT !.at = "return"]
  /\ pc' = "returned"
  /\ UNCHANGED <<sieve_size, num_threads, cpuInfo, workers, call, ret, err>>

NextStatus ==
  \/ status_reset
  \/ status_segment
  \/ status_final

SpecStatus == InitStatus /\ [][NextStatus]_vars

\* status a is at most status b
StatusLe(a, b) ==
  \/ a.kind = "unset"
  \/ b.kind = "full"
  \/ /\ a.kind = "ratio"
     /\ b.kind = "ratio"
     /\ Val(a.segments) * Val(b.range) <= Val(b.segments) * Val(a.range)

\* C23: when sieve() returns the status is 100.0, also for an interval
\* below 7, once the finder has reported every integer of
\* [max(start, 7), stop] once; from reset() on the status never decreases,
\* and it never exceeds 100.0
C23_StatusReaches100 ==
  /\ [](frame.fn = "status" /\ frame.at = "return" =>
          /\ ps.status_ = StatusFull
          /\ StatusInt(ps.status_) = 100
          /\ ps = sieve(frame.before))
  /\ [](frame.fn = "status" => StatusInt(ps.status_) <= 100)
  /\ [][frame.fn = "status" /\ frame.at # "reset" =>
          StatusLe(ps.status_, ps'.status_)]_vars

\* sieve() of [2, 6] has returned: nothing was sieved and the status is 100
C23_Witness ==
  /\ frame.fn = "status"
  /\ frame.at = "return"
  /\ frame.before.startNumber_ = U64(2)
  /\ frame.before.stopNumber_ = U64(6)
  /\ ps.segments_ = U64(10)
  /\ ps.status_ = StatusFull
  /\ ps.counts_[0] = 3

(***************************************************************************)
(* The progress updates of the workers on the shared parent.  A worker     *)
(* sends doStatus(0) at its reset(), doStatus(segment) after a segment and *)
(* doStatus(10) at the end; an update that was sent reaches the parent at  *)
(* any later time, in any order, or never.                                 *)
(***************************************************************************)
ProgressStarts == {0, 8}
ProgressStops == {6, MaxStop}
ProgressCuts == {5, 9}
MaxPending == 2

InitProgress ==
  /\ sieve_size = 0
  /\ num_threads = 0
  /\ cpuInfo = CpuInfoTypical
  /\ \E start \in ProgressStarts, stop \in ProgressStops :
     \E cuts \in CutSets(ProgressCuts \cap start..(stop - 1), MaxHwThreads - 1) :
     \E o \in {[NewPrimeSieve EXCEPT !.startNumber_ = U64(start),
                                     !.stopNumber_ = U64(stop),
                                     !.flags_ = COUNT_PRIMES + COUNT_TWINS]} :
     \E tiles \in {Tiles(start, stop, cuts)} :
       /\ start <= stop
       /\ cuts # {}
       /\ ps = reset(o)
       /\ workers = [i \in 1..Len(tiles) |-> [ps |-> Child(o, tiles[i]), done |-> FALSE]]
       /\ call = [op |-> "count", args |-> <<0, start, stop>>]
       /\ frame = [fn |-> "progress",
                   at |-> [i \in 1..Len(tiles) |-> "reset"],
                   left |-> [i \in 1..Len(tiles) |-> 0],
                   pending |-> <<>>]
  /\ pc = "running"
  /\ ret = 0
  /\ err = "none"

\* seq without its k-th element
Without(seq, k) == [j \in 1..(Len(seq) - 1) |-> IF j < k THEN seq[j] ELSE seq[j + 1]]

\* worker i: reset() of its child, the primes and tuplets below 7, and the
\* finder is made when the child's stop is at least 7
progress_reset(i) ==
  /\ frame.fn = "progress"
  /\ i \in DOMAIN workers
  /\ frame.at[i] = "reset"
  /\ Len(frame.pending) < MaxPending
  /\ workers' = [workers EXCEPT ![i].ps = smallPrimes(resetOwn(@))]
  /\ frame' = [frame EXCEPT
                 !.at[i] = IF U64Le(U64(7), workers[i].ps.stopNumber_)
                           THEN "finder" ELSE "final",
                 !.left[i] = IF U64Le(U64(7), workers[i].ps.stopNumber_)
                             THEN 1 + Val(workers[i].ps.stopNumber_)
                                    - Val(finderStart(workers[i].ps))
                             ELSE 0,
                 !.pending = Append(@, U64(0))]
  /\ UNCHANGED <<sieve_size, num_threads, cpuInfo, ps, pc, call, ret, err>>

\* worker i: the finder has sieved a segment (the rest of the tile or half
\* of it) and sends its length
progress_segment(i) ==
  /\ frame.fn = "progress"
  /\ i \in DOMAIN workers
  /\ frame.at[i] = "finder"
  /\ frame.left[i] > 0
  /\ Len(frame.pending) < MaxPending
  /\ \E segment \in {frame.left[i], (frame.left[i] + 1) \div 2} :
       frame' = [frame EXCEPT !.left[i] = @ - segment,
                              !.pending = Append(@, U64(segment))]
  /\ UNCHANGED <<sieve_size, num_threads, cpuInfo, ps, workers, pc, call, ret, err>>

\* worker i: the finder is finished, its counts are added to the child's,
\* and the closing doStatus(10) is sent
progress_final(i) ==
  /\ frame.fn = "progress"
  /\ i \in DOMAIN workers
  /\ \/ frame.at[i] = "final"
     \/ frame.at[i] = "finder" /\ frame.left[i] = 0
  /\ Len(frame.pending) < MaxPending
  /\ workers' = [workers EXCEPT ![i] = [ps |-> sieveFinder(@.ps), done |-> TRUE]]
  /\ frame' = [frame EXCEPT !.at[i] = "done", !.pending = Append(@, U64(10))]
  /\ UNCHANGED <<sieve_size, num_threads, cpuInfo, ps, pc, call, ret, err>>

\* an update reaches the parent: parent_->doStatus(segment)
progress_apply(k) ==
  /\ frame.fn = "progress"
  /\ pc = "running"
  /\ k \in DOMAIN frame.pending
  /\ ps' = doStatus(ps, frame.pending[k])
  /\ frame' = [frame EXCEPT !.pending = Without(@, k)]
  /\ UNCHANGED <<sieve_size, num_threads, cpuInfo, workers, pc, call, ret, err>>

\* an update is lost
progress_lose(k) ==
  /\ frame.fn = "progress"
  /\ pc = "running"
  /\ k \in DOMAIN frame.pending
  /\ frame' = [frame EXCEPT !.pending = Without(@, k)]
  /\ UNCHANGED <<sieve_size, num_threads, cpuInfo, ps, workers, pc, call, ret, err>>

\* a dispatcher that takes the full status as the end of the work
progress_join_AtFullStatus ==
  /\ frame.fn = "progress"
  /\ pc = "running"
  /\ ps.status_ = StatusFull
  /\ ps' = [ps EXCEPT !.counts_ = MergedCounts(workers)]
  /\ ret' = ps'.counts_[call.args[1]]
  /\ pc' = "returned"
  /\ UNCHANGED <<frame, sieve_size, num_threads, cpuInfo, workers, call, err>>

\* all workers have finished: their counts are summed and the call returns
progress_join ==
  /\ frame.fn = "progress"
  /\ pc = "running"
  /\ \A i \in DOMAIN workers : workers[i].done
  /\ ps' = [ps EXCEPT !.counts_ = MergedCounts(workers)]
  /\ ret' = ps'.counts_[call.args[1]]
  /\ pc' = "returned"
  /\ UNCHANGED <<frame, sieve_size, num_threads, cpuInfo, workers, call, err>>

NextProgress ==
  \/ \E i \in 1..MaxHwThreads : progress_reset(i)
  \/ \E i \in 1..MaxHwThreads : progress_segment(i)
  \/ \E i \in 1..MaxHwThreads : progress_final(i)
  \/ \E k \in 1..MaxPending : progress_apply(k)
  \/ \E k \in 1..MaxPending : progress_lose(k)
  \/ progress_join

SpecProgress == InitProgress /\ [][NextProgress]_vars

\* the counts of the tiles, each sieved by an object of its own that has no
\* parent to report to
TileCounts ==
  [t \in 0..(COUNTS_SIZE - 1) |->
     SumCounts([i \in 1..Len(workers) |->
                  sieveOwn([workers[i].ps EXCEPT !.counts_ = NewPrimeSieve.counts_]).counts_[t]],
               Len(workers))]

\* C25: an update that reaches the parent changes its segments_ and status_
\* and may print the status, and changes nothing else (not counts_, start,
\* stop, sieve size or flags, and no child), and
\* the counts the call returns are those of the tiles, the same whichever
\* updates reached the parent, in whichever order, and whichever were lost
C25_CountsIgnoreProgress ==
  /\ [][(frame.fn = "progress" /\ pc' = "running"
           /\ Len(frame'.pending) < Len(frame.pending)) =>
          /\ ps' = [ps EXCEPT !.segments_ = ps'.segments_, !.status_ = ps'.status_,
                              !.stdout = ps'.stdout]
          /\ workers' = workers]_vars
  /\ [](frame.fn = "progress" /\ pc = "returned" =>
          /\ ps.counts_ = TileCounts
          /\ ret = Cardinality(PrimesIn(call.args[2], call.args[3]))
          /\ ps.counts_[0] = ret)

\* the call has returned the 8 primes of [0, MaxStop] from two workers
\* although only one update, the closing one of a worker, reached the parent
C25_Witness ==
  /\ frame.fn = "progress"
  /\ pc = "returned"
  /\ call.args = <<0, 0, MaxStop>>
  /\ Len(workers) = 2
  /\ ret = Cardinality(PrimesIn(0, MaxStop))
  /\ ret > 0
  /\ ps.segments_ = U64(10)
  /\ ps.status_ # StatusFull

(***************************************************************************)
(* The calls of one sieve() in their order: frame.log holds "finder" and   *)
(* "generator" for the two objects made, "generator.sieve",                *)
(* "generator.finish" and "finder.finish" for the calls, and "counts" for  *)
(* the loop that adds the finder's counts to counts_.                      *)
(***************************************************************************)
OrderStops == (0..MaxN) \cup TrialStops
OrderStarts == {0, 3}

InitOrder ==
  /\ sieve_size = 0
  /\ num_threads = 0
  /\ cpuInfo = CpuInfoTypical
  /\ \E startNumber \in OrderStarts, stopNumber \in OrderStops :
       /\ startNumber <= stopNumber
       /\ ps = [NewPrimeSieve EXCEPT !.startNumber_ = U64(startNumber),
                                     !.stopNumber_ = U64(stopNumber)]
  /\ workers = <<>>
  /\ pc = "running"
  /\ call = [op |-> "sieve", args |-> <<>>]
  /\ ret = 0
  /\ err = "none"
  /\ \E eliminateUpTo \in EliminateUpToChoices :
       frame = [fn |-> "sieve", at |-> "begin", eliminateUpTo |-> eliminateUpTo,
                primes16Bit |-> <<>>, stop |-> 0, keep |-> 0, n |-> 0, s |-> 0,
                i |-> 0, sieved |-> <<>>, undefined |-> FALSE, log |-> <<>>]

\* reset() and the primes and tuplets below 7; with stopNumber_ >= 7 the
\* finder is made, else doStatus(10) and the return
order_begin ==
  /\ frame.fn = "sieve"
  /\ frame.at = "begin"
  /\ IF U64Le(U64(7), ps.stopNumber_)
     THEN /\ ps' = smallPrimes(reset(ps))
          /\ frame' = [frame EXCEPT !.log = Append(@, "finder"), !.at = "generator"]
          /\ pc' = pc
     ELSE /\ ps' = doStatus(smallPrimes(reset(ps)), U64(10))
          /\ frame' = [frame EXCEPT !.at = "return"]
          /\ pc' = "returned"
  /\ UNCHANGED <<sieve_size, num_threads, cpuInfo, workers, call, ret, err>>

NextOrder ==
  \/ order_begin
  \/ trial_generator
  \/ trial_for
  \/ trial_divide
  \/ trial_if
  \/ trial_finish

SpecOrder == InitOrder /\ [][NextOrder]_vars

\* how often e is in the log
Times(log, e) == Cardinality({k \in DOMAIN log : log[k] = e})

\* every e of the log is before every f of the log
AllBefore(log, e, f) ==
  \A j, k \in DOMAIN log : (log[j] = e /\ log[k] = f) => j < k

\* C22: in a sieve() with stop >= 7 the generator is made exactly when
\* floor(sqrt(stop)) is above the pre-sieve limit; every generator.sieve(n)
\* is before generator.finish(), which is before finder.finish();
\* finder.finish() is called once; the finder's counts are added after it.
\* With stop < 7 neither finder nor generator is made and the counts are
\* those of the pre-list
C22_CallOrder ==
  (frame.fn = "sieve" /\ "at" \in DOMAIN frame /\ "log" \in DOMAIN frame) =>
    LET log == frame.log IN
    /\ AllBefore(log, "finder", "generator")
    /\ AllBefore(log, "generator", "generator.sieve")
    /\ AllBefore(log, "generator.sieve", "generator.finish")
    /\ AllBefore(log, "generator.finish", "finder.finish")
    /\ AllBefore(log, "generator.sieve", "finder.finish")
    /\ AllBefore(log, "finder.finish", "counts")
    /\ Times(log, "generator.sieve") > 0 => Times(log, "generator") = 1
    /\ (U64Le(U64(7), ps.stopNumber_) /\ frame.at \notin {"begin", "generator"}) =>
         /\ Times(log, "finder") = 1
         /\ Times(log, "generator") =
              IF isqrt(Val(ps.stopNumber_)) > frame.eliminateUpTo THEN 1 ELSE 0
    /\ (U64Le(U64(7), ps.stopNumber_) /\ frame.at = "return") =>
         /\ Times(log, "finder.finish") = 1
         /\ Times(log, "counts") = 1
         /\ Times(log, "generator.finish") = Times(log, "generator")
         /\ Times(log, "generator.sieve") = Len(frame.sieved)
    /\ (U64Lt(ps.stopNumber_, U64(7)) /\ frame.at = "return") =>
         /\ log = <<>>
         /\ ps.counts_[0] = Cardinality({p \in {2, 3, 5} :
                                Val(ps.startNumber_) <= p /\ p <= Val(ps.stopNumber_)})
         /\ \A t \in 1..(COUNTS_SIZE - 1) : ps.counts_[t] = 0

\* sieve() of [0, 50^4] with limit 13 has returned: finder and generator
\* made, the nine primes 17 .. 47 given to the generator, the two finish()
\* and the counts
C22_Witness ==
  /\ frame.fn = "sieve"
  /\ frame.at = "return"
  /\ frame.stop = 50
  /\ Len(frame.log) = 14
  /\ frame.log[1] = "finder"
  /\ frame.log[2] = "generator"
  /\ frame.log[3] = "generator.sieve"
  /\ frame.log[12] = "generator.finish"
  /\ frame.log[13] = "finder.finish"
  /\ frame.log[14] = "counts"
  /\ frame.eliminateUpTo = 13
  /\ frame.sieved[1] = 17

====
